---- MODULE Spec2Model ----
(***************************************************************************)
(* The call manager of AviaxMusic/core/call.py (class Call) for one chat   *)
(* id: the play queue db[chat_id], the active flags, the loop counter and  *)
(* the voice-chat engine of the chat's assistant.  Every public coroutine  *)
(* is a task; a task gives up the event loop at each awaited external call *)
(* and runs atomically between two of them.  The module state and the      *)
(* handlers of plugins/bot/inline.py, plugins/play/dw.py and               *)
(* plugins/tools/c.py follow the call manager.                             *)
(***************************************************************************)
EXTENDS Integers, Sequences, FiniteSets, TLC

VARIABLES db, heap, active, activeVideo, musicOn, loopv, engine, cache,
          autoend, counter, tasks, fin, env,
          inline, dw, chatbot

\* The module state of plugins/bot/inline.py, plugins/play/dw.py and
\* plugins/tools/c.py; the call manager never touches it.
plugins == <<inline, dw, chatbot>>

vars == <<db, heap, active, activeVideo, musicOn, loopv, engine, cache,
          autoend, counter, tasks, fin, env, inline, dw, chatbot>>

\* ---------------------------------------------------------------- bounds
MaxQueue == 2
MaxLoop == 1
MaxPlayed == 1

\* ------------------------------------------------------------- constants
NumAssistants == 5

Tasks == {1, 2}
ListIds == {1, 2, 3}
NoList == 0
NoSrc == <<>>
NotInCall == NoSrc
NoMsg == <<>>
NoDur == <<>>

Assistants == 1..NumAssistants
GroupAssistant == 1

Speeds == {"1.0", "2.0"}

\* ------------------------------------------------------- pure helpers
\* A file value is a string, kept as the sequence of its pieces so that
\* "marker in file" and "file starts with marker" are different tests.
Contains(marker, file) == \E i \in 1..Len(file) : file[i] = marker

StartsWith(marker, file) == Len(file) > 0 /\ file[1] = marker

Basename(file) == file[Len(file)]

SecondsToMin(n) == <<n \div 60, n % 60>>

CheckDuration(out) ==
  IF StartsWith("playback/", out) /\ out[2] = "2.0" THEN 2 ELSE 4

SpeedConverter(played, speed) ==
  IF speed = "2.0" THEN played - ((50 * played) \div 100) ELSE played

SpeedOut(file_path, speed) ==
  IF speed # "1.0" THEN <<"playback/", speed, Basename(file_path)>> ELSE file_path

Track(file, vidid, streamtype, chat_id) ==
  [file |-> file, vidid |-> vidid, streamtype |-> streamtype,
   chat_id |-> chat_id, played |-> 0, dur |-> SecondsToMin(4), seconds |-> 4,
   old_dur |-> NoDur, old_second |-> 0, speed |-> "unset",
   speed_path |-> NoSrc, mystic |-> NoMsg, markup |-> "unset"]

TrLive == Track(<<"live_", "x">>, "x", "video", "c1")
TrVid == Track(<<"vid_", "y">>, "y", "audio", "c0")
TrIndex == Track(<<"index_", "z">>, "z", "video", "c1")
TrFile == Track(<<"downloads/", "a">>, "a", "audio", "c1")
TrFileVid == Track(<<"downloads/", "xx", "vid_", "b">>, "xxvid_b", "audio", "c0")
TrTelegram == Track(<<"tgdl/", "a">>, "telegram", "video", "c1")

\* What a run fixes from outside: the coroutine slots, the tracks play requests
\* ask for, the global auto-end setting, the configured assistants, the
\* participant counts get_participants can report (0: it raises), the stored
\* loop count at the start, the outcomes of the artifact removal and whether
\* a flag removal in the store can raise (store: TRUE is success).
Scenarios ==
  { [slots |-> {1}, cat |-> {TrLive, TrFile}, autoendOn |-> FALSE,
     configured |-> {1}, users |-> {1}, loop |-> 0,
     clean |-> {"removed", "failed"},
     store |-> {TRUE}],
    [slots |-> {1}, cat |-> {TrVid, TrFileVid}, autoendOn |-> FALSE,
     configured |-> {1, 2, 4}, users |-> {1}, loop |-> 0,
     clean |-> {"removed", "failed"},
     store |-> {TRUE}],
    [slots |-> {1}, cat |-> {TrIndex, TrTelegram}, autoendOn |-> TRUE,
     configured |-> Assistants, users |-> {0, 1, 2}, loop |-> 0,
     clean |-> {"removed", "failed"},
     store |-> {TRUE}] }

StreamScenarios ==
  { [slots |-> {1}, cat |-> {TrFile, TrTelegram}, autoendOn |-> TRUE,
     configured |-> {1}, users |-> {1}, loop |-> 0, clean |-> {"removed"}, store |-> {TRUE}] }

ConcScenarios ==
  { [slots |-> Tasks, cat |-> {TrLive}, autoendOn |-> TRUE,
     configured |-> {1}, users |-> {2}, loop |-> 1, clean |-> {"removed"}, store |-> {TRUE}] }

SpeedScenarios ==
  { [slots |-> {1}, cat |-> {TrFile, TrLive}, autoendOn |-> TRUE,
     configured |-> {1}, users |-> {1}, loop |-> 1, clean |-> {"removed"}, store |-> {TRUE}] }

RaceScenarios ==
  { [slots |-> Tasks, cat |-> {TrLive}, autoendOn |-> TRUE,
     configured |-> {1}, users |-> {2}, loop |-> 0, clean |-> {"removed"}, store |-> {TRUE}],
    [slots |-> Tasks, cat |-> {TrLive}, autoendOn |-> TRUE,
     configured |-> {1}, users |-> {2}, loop |-> 2, clean |-> {"removed"}, store |-> {TRUE}] }

SpeedRaceScenarios ==
  { [slots |-> Tasks, cat |-> {TrFile, TrLive}, autoendOn |-> TRUE,
     configured |-> {1}, users |-> {2}, loop |-> 0, clean |-> {"removed"}, store |-> {TRUE}] }

\* The assistants configured at start-up, for ping() and start().
BootScenarios ==
  { [slots |-> {1}, cat |-> {TrLive}, autoendOn |-> FALSE,
     configured |-> c, users |-> {1}, loop |-> 0, clean |-> {"removed"},
     store |-> {TRUE}] : c \in { {}, {1, 2, 3}, {2, 5}, {4} } }

CleanupScenarios ==
  { [slots |-> {1}, cat |-> {TrLive, TrFile}, autoendOn |-> TRUE,
     configured |-> {1, 2}, users |-> {1}, loop |-> 0, clean |-> {"removed"},
     store |-> BOOLEAN] }

LiveLink(vidid) == <<"https://live/", vidid>>

DownloadPath(vidid) == <<"downloads/", vidid, ".mp4">>

\* The route change_stream takes for a head whose file is `queued`.
Route(queued) ==
  IF Contains("live_", queued) THEN "live"
  ELSE IF Contains("vid_", queued) THEN "vid"
  ELSE IF Contains("index_", queued) THEN "index"
  ELSE "direct"

\* The source change_stream hands to the engine on a route.
RouteSource(route, queued, vidid) ==
  CASE route = "live" -> LiveLink(vidid)
    [] route = "vid" -> DownloadPath(vidid)
    [] route = "index" -> <<vidid>>
    [] OTHER -> queued

RouteVideo(route, streamtype) == route # "index" /\ streamtype = "video"

RouteMarkup(route, vidid) ==
  CASE route = "live" -> "tg"
    [] route = "vid" -> "stream"
    [] route = "index" -> "tg"
    [] OTHER -> IF vidid \in {"telegram", "soundcloud"} THEN "tg" ELSE "stream"

\* change_stream's second await of a route: a thumbnail is generated first
\* on every route but index_ and the two sentinel ids.
RouteThumb(route, vidid) ==
  route \in {"live", "vid"}
  \/ (route = "direct" /\ vidid \notin {"telegram", "soundcloud"})

AutoCleanPropagates(outcome) == IF outcome = "failed" THEN "raises" ELSE "returns"

\* auto_clean(popped): what its caller sees for an outcome of the removal.
AutoClean(outcome) == "returns"

\* The texts of the exceptions the engine's play raises in join_call.
ErrMsgs ==
  { <<"No Active", " group call">>, <<"chat ", "not found">>,
    <<"ALREADY", " in call">>, <<"not found", ": ", "already", " ", "joined">>,
    <<"timeout">> }

\* str(e).lower() (line 262).
LowerPiece(p) ==
  IF p = "No Active" THEN "no active"
  ELSE IF p = "ALREADY" THEN "already"
  ELSE p

Lower(msg) == [i \in 1..Len(msg) |-> LowerPiece(msg[i])]

JoinErrorAlreadyFirst(msg) ==
  IF Contains("already", msg) \/ Contains("joined", msg) THEN "call_9"
  ELSE IF Contains("no active", msg) \/ Contains("not found", msg) THEN "call_8"
  ELSE "call_10"

\* The classification of the lower-cased text (lines 263-268).
JoinError(msg) ==
  IF Contains("no active", msg) \/ Contains("not found", msg) THEN "call_8"
  ELSE IF Contains("already", msg) \/ Contains("joined", msg) THEN "call_9"
  ELSE "call_10"

PopLast(q) == SubSeq(q, 1, Len(q) - 1)

PopNone(q) == q

\* check.pop(0) (line 292) leaves the list without its first entry.
PopHead(q) == Tail(q)

LoopKept(loop) == loop

\* loop = loop - 1 (line 294).
LoopAfter(loop) == loop - 1

\* not check (line 299): the list is None or empty.
IsEmpty(check) == check = <<>>

AfterResolveIgnored(ok) == "cs_play"

\* n == 0 (line 331) or the except of line 379 ends the advance.
AfterResolve(ok) == IF ok THEN "cs_play" ELSE "return"

SpeedGuardOpen(headfile, file_path) == TRUE

\* speedup_stream's identity guard (lines 157 and 166).
SpeedGuard(headfile, file_path) == headfile = file_path

\* --------------------------------------------------------------- the heap
\* db[chat_id] is a reference to a list object; `check` and `playing` alias it.
Q(l) == IF l = NoList THEN <<>> ELSE heap[l]

Idle ==
  [op |-> "idle", pc |-> "idle", lst |-> NoList, loop |-> 0, queued |-> <<>>,
   vid |-> "", orig |-> "", video |-> FALSE, route |-> "", src |-> NoSrc,
   fp |-> <<>>, speed |-> "", dur |-> 0, con |-> 0, i |-> 0, handler |-> FALSE,
   plays |-> <<>>, leaves |-> <<>>, nraise |-> 0, notes |-> <<>>, res |-> <<>>,
   clean |-> "none", sraise |-> 0, ae0 |-> FALSE, err |-> <<>>, had |-> 0,
   seek |-> <<>>, readings |-> <<>>, pings |-> <<>>, text |-> <<>>, starts |-> <<>>,
   alone |-> FALSE, q0 |-> <<>>, loop0 |-> 0,
   act0 |-> <<>>, result |-> ""]

NoFin == Idle

TaskRefs(tk) == {tk[u].lst : u \in Tasks}

\* A fresh list object: an id no task still refers to.
NewList(tk) ==
  CHOOSE l \in ListIds :
    /\ l \notin TaskRefs(tk)
    /\ \A m \in ListIds : m \notin TaskRefs(tk) => l <= m

GC(h, d, tk) ==
  [l \in ListIds |-> IF l = d \/ l \in TaskRefs(tk) THEN h[l] ELSE <<>>]

\* Another task or the environment ran while r was suspended.
Disturb(r) ==
  IF r.op = "idle" THEN r ELSE [r EXCEPT !.alone = FALSE, !.q0 = <<>>, !.act0 = <<>>]

\* Task t moves to rec (or ends with rec as its record); d and h are the new
\* db reference and heap.
Commit(t, rec, done, d, h) ==
  LET tk == [u \in Tasks |->
               IF u = t THEN (IF done THEN Idle ELSE rec) ELSE Disturb(tasks[u])]
  IN /\ tasks' = tk
     /\ fin' = (IF done THEN [rec EXCEPT !.pc = "done", !.lst = NoList] ELSE NoFin)
     /\ db' = d
     /\ heap' = GC(h, d, tk)

EnvCommit(d, h) ==
  LET tk == [u \in Tasks |-> Disturb(tasks[u])]
  IN /\ tasks' = tk
     /\ fin' = NoFin
     /\ db' = d
     /\ heap' = GC(h, d, tk)

Begin(op, pc) ==
  [Idle EXCEPT !.op = op, !.pc = pc, !.lst = db,
               !.alone = Cardinality(env.slots) = 1,
               !.q0 = IF Cardinality(env.slots) = 1 THEN Q(db) ELSE <<>>,
               !.act0 = IF Cardinality(env.slots) = 1
                        THEN <<active, activeVideo>> ELSE <<>>]

FreeExclusive(t) ==
  /\ t \in env.slots
  /\ \A u \in env.slots : tasks[u].op = "idle"
  /\ \A u \in env.slots : u >= t

\* Slot t takes the next coroutine: the lowest free slot (slots are interchangeable).
\* Nothing in Call holds a coroutine back while another one is suspended.
Free(t) ==
  /\ t \in env.slots
  /\ tasks[t].op = "idle"
  /\ \A u \in env.slots : u < t => tasks[u].op # "idle"

\* db[chat_id] = [] of _clear_ (line 38): the key is bound to a new empty list.
ClearList(tk) == NewList(tk)

\* The heap with that new list empty.
Cleared(tk) == [heap EXCEPT ![NewList(tk)] = <<>>]

SetHead(h, l, f, v) == [h EXCEPT ![l][1][f] = v]

Start(scenarios) ==
  /\ env \in scenarios
  /\ db = NoList
  /\ heap = [l \in ListIds |-> <<>>]
  /\ active = FALSE
  /\ activeVideo = FALSE
  /\ musicOn = FALSE
  /\ loopv = env.loop
  /\ engine = NotInCall
  /\ cache = {}
  /\ autoend = FALSE
  /\ counter = FALSE
  /\ tasks = [t \in Tasks |-> Idle]
  /\ fin = NoFin

\* No plugin handler has run: the three plugin modules as imported.
PluginsOff ==
  /\ inline = [on |-> FALSE]
  /\ dw = [on |-> FALSE]
  /\ chatbot = [on |-> FALSE]

\* One coroutine at a time, every kind of track.
Init == Start(Scenarios) /\ PluginsOff

InitStream == Start(StreamScenarios) /\ PluginsOff

\* Two coroutines that interleave at their awaits, two kinds of track.
InitConc == Start(ConcScenarios) /\ PluginsOff

InitSpeed == Start(SpeedScenarios) /\ PluginsOff

InitRace == Start(RaceScenarios) /\ PluginsOff

InitCleanup == Start(CleanupScenarios) /\ PluginsOff

InitBoot == Start(BootScenarios) /\ PluginsOff

InitSpeedRace == Start(SpeedRaceScenarios) /\ PluginsOff

\* ------------------------------------------------- engine calls (external)
\* assistant.play(chat_id, MediaStream(src, flags)) that succeeds.
Played(src, flags) == src

VideoFlags(video) == IF video THEN {"video:HD_720p"} ELSE {}

\* assistant.leave_call(chat_id) on assistant a: only the chat's own assistant
\* is in the call.
Left(a, ok) == IF ok /\ a = GroupAssistant THEN NotInCall ELSE engine

\* ------------------------------------------------------------ _clear_
\* The three statements of _clear_ (lines 38-40) are the start of a teardown:
\* db[chat_id] = [] runs with the code before it, each flag removal is awaited.
\* Where an exception of a flag removal goes: stop_stream (line 101) and
\* stop_stream_force (line 115) log it, change_stream's try (line 302) hands it
\* to the except clause, whose own try (line 307) returns; force_stop_stream
\* awaits the removals outside any try (lines 186-187).
AfterStoreFailure(op, handler) ==
  IF op = "force_stop_stream" THEN "raise"
  ELSE IF op = "change_stream" /\ ~handler THEN "handler"
  ELSE "return"

StoreFailed(t) ==
  LET r == [tasks[t] EXCEPT !.sraise = @ + 1]
      to == AfterStoreFailure(r.op, r.handler)
  IN IF to = "handler"
     THEN Commit(t, [r EXCEPT !.handler = TRUE, !.pc = "rmv"], FALSE,
                 ClearList(tasks), Cleared(tasks))
     ELSE Commit(t, [r EXCEPT !.result = IF to = "raise" THEN "StoreError" ELSE "returns"],
                 TRUE, db, heap)

Rmv(t) ==
  /\ tasks[t].pc = "rmv"
  /\ \E ok \in env.store :
       IF ok
       THEN /\ activeVideo' = FALSE
            /\ Commit(t, [tasks[t] EXCEPT !.pc = "rma"], FALSE, db, heap)
       ELSE /\ activeVideo' = activeVideo
            /\ StoreFailed(t)
  /\ UNCHANGED <<active, musicOn, loopv, engine, cache, autoend, counter, env, plugins>>

Rma(t) ==
  LET r == tasks[t]
      last == r.op = "stop_stream_force"
  IN /\ r.pc = "rma"
     /\ \E ok \in env.store :
          IF ok
          THEN /\ active' = FALSE
               /\ Commit(t, [r EXCEPT !.pc = "leave", !.result = "returns"], last, db, heap)
          ELSE /\ active' = active
               /\ StoreFailed(t)
     /\ UNCHANGED <<activeVideo, musicOn, loopv, engine, cache, autoend, counter, env, plugins>>

LeaveResultRaw(op, ok) == IF ok THEN "returns" ELSE "EngineError"

\* Each of these leave_call awaits sits in a try whose except logs or returns
\* (lines 101-102, 191-192, 302-308).
LeaveResult(op, ok) == "returns"

\* await assistant.leave_call(chat_id) of stop_stream (line 100),
\* force_stop_stream (line 190) and change_stream (lines 301 and 306).
Leave(t) ==
  LET r == tasks[t] IN
  /\ r.pc = "leave"
  /\ \E ok \in BOOLEAN :
       LET r1 == [r EXCEPT !.leaves = Append(@, GroupAssistant),
                           !.nraise = IF ok THEN @ ELSE @ + 1,
                           !.result = LeaveResult(r.op, ok)]
       IN /\ engine' = Left(GroupAssistant, ok)
          /\ IF ~ok /\ r.op = "change_stream" /\ ~r.handler
             THEN \* the except clause of line 302 runs _clear_ and leave_call again
                  Commit(t, [r1 EXCEPT !.handler = TRUE, !.pc = "rmv"], FALSE,
                         ClearList(tasks), Cleared(tasks))
             ELSE Commit(t, r1, TRUE, db, heap)
  /\ UNCHANGED <<active, activeVideo, musicOn, loopv, cache, autoend, counter, env, plugins>>

\* -------------------------------------------------------- change_stream
AdvanceErrorRaised(check) == "raise"

\* check.pop(0) on a missing or empty queue raises inside the try of line 290:
\* the except clause of line 302 takes it.
AdvanceError(check) == "handler"

ChangeStreamStart(t) ==
  /\ Free(t)
  /\ Commit(t, Begin("change_stream", "cs_loop"), FALSE, db, heap)
  /\ UNCHANGED <<active, activeVideo, musicOn, loopv, engine, cache, autoend, counter, env, plugins>>

\* loop = await get_loop(chat_id), then lines 291-295.
CsLoop(t) ==
  LET r == [tasks[t] EXCEPT !.loop0 = loopv] IN
  /\ r.pc = "cs_loop"
  /\ IF loopv = 0
     THEN IF Q(r.lst) = <<>>
          THEN \* check.pop(0) raises (check is None or empty): line 302
               IF AdvanceError(Q(r.lst)) = "handler"
               THEN Commit(t, [r EXCEPT !.handler = TRUE, !.pc = "rmv"], FALSE,
                           ClearList(tasks), Cleared(tasks))
               ELSE Commit(t, [r EXCEPT !.result = "IndexError"], TRUE, db, heap)
          ELSE \* had: the entries check held when popped was taken from it
               Commit(t, [r EXCEPT !.pc = "cs_clean", !.had = Len(Q(r.lst))], FALSE, db,
                      [heap EXCEPT ![r.lst] = PopHead(@)])
     ELSE Commit(t, [r EXCEPT !.loop = LoopAfter(loopv), !.pc = "cs_setloop"],
                 FALSE, db, heap)
  /\ UNCHANGED <<active, activeVideo, musicOn, loopv, engine, cache, autoend, counter, env, plugins>>

\* await set_loop(chat_id, loop) (line 295).
CsSetLoop(t) ==
  LET r == tasks[t] IN
  /\ r.pc = "cs_setloop"
  /\ loopv' = r.loop
  /\ Commit(t, [r EXCEPT !.pc = "cs_clean"], FALSE, db, heap)
  /\ UNCHANGED <<active, activeVideo, musicOn, engine, cache, autoend, counter, env, plugins>>

\* await auto_clean(popped), then the emptiness test of line 299 and, on a
\* non-empty queue, line 310.
CsClean(t) ==
  LET r == tasks[t] IN
  /\ r.pc = "cs_clean"
  /\ \E outcome \in env.clean :
       LET r1 == [r EXCEPT !.clean = outcome, !.had = 0] IN
       IF AutoClean(outcome) = "raises"
       THEN Commit(t, [r1 EXCEPT !.handler = TRUE, !.pc = "rmv"], FALSE,
                   ClearList(tasks), Cleared(tasks))
       ELSE IF IsEmpty(Q(r.lst))
       THEN Commit(t, [r1 EXCEPT !.pc = "rmv"], FALSE, ClearList(tasks), Cleared(tasks))
       ELSE Commit(t, [r1 EXCEPT !.queued = Q(r.lst)[1].file, !.pc = "cs_lang"],
                   FALSE, db, heap)
  /\ UNCHANGED <<active, activeVideo, musicOn, loopv, engine, cache, autoend, counter, env, plugins>>

ResetPlayedOnly(h, l, chk) == SetHead(h, l, "played", 0)

\* The head after lines 318-325: played reset, a speed change undone.
ResetHead(h, l, chk) ==
  LET h1 == SetHead(h, l, "played", 0) IN
  IF chk.old_dur # NoDur
  THEN [h1 EXCEPT ![l][1].dur = chk.old_dur, ![l][1].seconds = chk.old_second,
                  ![l][1].speed_path = NoSrc, ![l][1].speed = "1.0"]
  ELSE h1

\* language = await get_lang(chat_id), then lines 312-329.
CsLang(t) ==
  LET r == tasks[t] IN
  /\ r.pc = "cs_lang"
  /\ IF Q(r.lst) = <<>> \/ Q(db) = <<>>
     THEN \* check[0] or db[chat_id][0] raises IndexError out of change_stream
          Commit(t, [r EXCEPT !.result = "IndexError"], TRUE, db, heap)
     ELSE LET chk == Q(r.lst)[1]
              route == Route(r.queued)
              r1 == [r EXCEPT !.vid = chk.vidid, !.orig = chk.chat_id,
                              !.video = RouteVideo(route, chk.streamtype),
                              !.route = route,
                              !.src = IF route \in {"index", "direct"}
                                      THEN RouteSource(route, r.queued, chk.vidid)
                                      ELSE NoSrc,
                              !.pc = IF route \in {"live", "vid"}
                                     THEN "cs_resolve" ELSE "cs_play"]
          IN Commit(t, r1, FALSE, db, ResetHead(heap, db, chk))
  /\ UNCHANGED <<active, activeVideo, musicOn, loopv, engine, cache, autoend, counter, env, plugins>>

\* await YouTube.video(videoid, True) (line 330) or, after the notice of
\* line 371, await YouTube.download(...) (line 373).
CsResolve(t) ==
  LET r == tasks[t] IN
  /\ r.pc = "cs_resolve"
  /\ \E ok \in BOOLEAN :
       LET r1 == [r EXCEPT !.res = Append(@, [route |-> r.route, ok |-> ok])] IN
       IF AfterResolve(ok) = "cs_play"
       THEN Commit(t, [r1 EXCEPT !.src = RouteSource(r.route, r.queued, r.vid),
                                 !.pc = "cs_play"], FALSE, db, heap)
       ELSE Commit(t, [r1 EXCEPT !.notes = Append(@, r.orig), !.result = "returns"],
                   TRUE, db, heap)
  /\ UNCHANGED <<active, activeVideo, musicOn, loopv, engine, cache, autoend, counter, env, plugins>>

AfterPlayIgnored(ok) == "announce"

\* The except clauses of lines 348, 395, 421 and 449 end the advance.
AfterPlay(ok) == IF ok THEN "announce" ELSE "return"

\* await client.play(...) of the four routes, then the code up to the next await.
CsPlay(t) ==
  LET r == tasks[t] IN
  /\ r.pc = "cs_play"
  /\ \E ok \in BOOLEAN :
       LET r1 == [r EXCEPT !.plays = Append(@, [src |-> r.src, flags |-> VideoFlags(r.video)]),
                           !.nraise = IF ok THEN @ ELSE @ + 1] IN
       IF AfterPlay(ok) = "return"
       THEN /\ engine' = engine
            /\ Commit(t, [r1 EXCEPT !.notes = Append(@, r.orig), !.result = "returns"],
                      TRUE, db, heap)
       ELSE /\ engine' = (IF ok THEN Played(r.src, VideoFlags(r.video)) ELSE engine)
            /\ IF RouteThumb(r.route, r.vid)
               THEN Commit(t, [r1 EXCEPT !.pc = "cs_thumb"], FALSE, db, heap)
               ELSE IF r.route = "direct" /\ Q(r.lst) = <<>>
               THEN \* check[0]["dur"] of line 463 raises
                    Commit(t, [r1 EXCEPT !.result = "IndexError"], TRUE, db, heap)
               ELSE Commit(t, [r1 EXCEPT !.pc = "cs_send"], FALSE, db, heap)
  /\ UNCHANGED <<active, activeVideo, musicOn, loopv, cache, autoend, counter, env, plugins>>

\* img = await gen_thumb(videoid), then the caption's check[0]["dur"].
CsThumb(t) ==
  LET r == tasks[t] IN
  /\ r.pc = "cs_thumb"
  /\ IF Q(r.lst) = <<>>
     THEN Commit(t, [r EXCEPT !.result = "IndexError"], TRUE, db, heap)
     ELSE Commit(t, [r EXCEPT !.pc = "cs_send"], FALSE, db, heap)
  /\ UNCHANGED <<active, activeVideo, musicOn, loopv, engine, cache, autoend, counter, env, plugins>>

\* run = await app.send_photo(...), then the two stores into db[chat_id][0].
CsSend(t) ==
  LET r == tasks[t] IN
  /\ r.pc = "cs_send"
  /\ IF Q(db) = <<>>
     THEN Commit(t, [r EXCEPT !.result = "IndexError"], TRUE, db, heap)
     ELSE Commit(t, [r EXCEPT !.result = "returns"], TRUE, db,
                 [heap EXCEPT ![db][1].mystic = <<"photo", r.orig, r.vid>>,
                              ![db][1].markup = RouteMarkup(r.route, r.vid)])
  /\ UNCHANGED <<active, activeVideo, musicOn, loopv, engine, cache, autoend, counter, env, plugins>>

\* ---------------------------------------------------------- stop_stream
\* assistant = await group_assistant(...), then _clear_ up to its first await.
StopStreamStart(t) ==
  /\ Free(t)
  /\ Commit(t, Begin("stop_stream", "rmv"), FALSE,
            ClearList(tasks), Cleared(tasks))
  /\ UNCHANGED <<active, activeVideo, musicOn, loopv, engine, cache, autoend, counter, env, plugins>>

\* ---------------------------------------------------- stop_stream_force
\* The configured assistants from index i on, in the order of line 106.
NextConfigured(i) ==
  IF \E a \in env.configured : a >= i
  THEN CHOOSE a \in env.configured : a >= i /\ \A b \in env.configured : b >= i => a <= b
  ELSE NumAssistants + 1

AfterLeaveAbort(i, ok) == IF ok THEN NextConfigured(i + 1) ELSE NumAssistants + 1

\* The loop of line 106 goes on to the next assistant whether or not
\* leave_call raised (lines 108-111).
AfterLeave(i, ok) == NextConfigured(i + 1)

StopStreamForceStart(t) ==
  /\ Free(t)
  /\ Commit(t, [Begin("stop_stream_force", "sf_leave") EXCEPT
                  !.i = NextConfigured(1)], FALSE, db, heap)
  /\ UNCHANGED <<active, activeVideo, musicOn, loopv, engine, cache, autoend, counter, env, plugins>>

\* await assistant.leave_call(chat_id) inside the loop (lines 107-111); after
\* the last assistant, _clear_ up to its first await.
SfLeave(t) ==
  LET r == tasks[t] IN
  /\ r.pc = "sf_leave"
  /\ \E ok \in BOOLEAN :
       LET nxt == AfterLeave(r.i, ok)
           r1 == [r EXCEPT !.leaves = Append(@, r.i),
                           !.nraise = IF ok THEN @ ELSE @ + 1, !.i = nxt]
       IN /\ engine' = Left(r.i, ok)
          /\ IF nxt <= NumAssistants
             THEN Commit(t, r1, FALSE, db, heap)
             ELSE Commit(t, [r1 EXCEPT !.pc = "rmv"], FALSE, ClearList(tasks), Cleared(tasks))
  /\ UNCHANGED <<active, activeVideo, musicOn, loopv, cache, autoend, counter, env, plugins>>

\* ------------------------------------------------------------------ ping
\* What reading client.ping gives: it raises, it is None, or it is a number
\* of milliseconds.
NoReading == [k |-> "none", v |-> 0]

PingValues == {0, 100, 200, 300}

PingReadings ==
  {[k |-> "raises", v |-> 0], NoReading} \cup {[k |-> "value", v |-> x] : x \in PingValues}

SampledAny(rd) == rd.k = "value"

\* if ping_value and ping_value > 0 (line 515); a reading that raises is
\* skipped by the except clause (lines 517-519).
Sampled(rd) == rd.k = "value" /\ rd.v # 0 /\ rd.v > 0

\* The list pings after the loop of lines 510-519 from assistant i on.
RECURSIVE PingSamples(_, _)
PingSamples(readings, i) ==
  IF i > NumAssistants THEN <<>>
  ELSE IF i \in env.configured /\ Sampled(readings[i])
       THEN <<readings[i].v>> \o PingSamples(readings, i + 1)
       ELSE PingSamples(readings, i + 1)

RECURSIVE SumSeq(_)
SumSeq(q) == IF q = <<>> THEN 0 ELSE Head(q) + SumSeq(Tail(q))

\* round(avg_ping, 3), in thousandths: the nearest thousandth of total / n.
Round3(total, n) == (2000 * total + n) \div (2 * n)

\* str() of a float with at most three decimals: the whole part and the
\* thousandths behind the point ("200.0" is <<200, 0>>, "133.333" is <<133, 333>>).
Str(thousandths) == <<thousandths \div 1000, thousandths % 1000>>

\* The literal "0.0" of line 522.
ZeroText == <<0, 0>>

\* ping() has no await: lines 498-525 run in one step.
Ping(t) ==
  /\ Free(t)
  /\ \E read \in [env.configured -> PingReadings] :
       LET readings == [i \in Assistants |->
                          IF i \in env.configured THEN read[i] ELSE NoReading]
           pings == PingSamples(readings, 1)
           text == IF pings = <<>> THEN ZeroText
                   ELSE Str(Round3(SumSeq(pings), Len(pings)))
       IN Commit(t, [Begin("ping", "done") EXCEPT !.readings = readings,
                          !.pings = pings, !.text = text, !.result = "returns"],
                    TRUE, db, heap)
  /\ UNCHANGED <<active, activeVideo, musicOn, loopv, engine, cache, autoend, counter, env, plugins>>

\* ----------------------------------------------------------------- start
AfterStartAbort(i, ok) == IF ok THEN NextConfigured(i + 1) ELSE NumAssistants + 1

\* The loop of line 539 goes on to the next client whether or not start()
\* raised (lines 541-545).
AfterStart(i, ok) == NextConfigured(i + 1)

\* start() up to its first await client.start().
StartClients(t) ==
  /\ Free(t)
  /\ LET r == [Begin("start", "st_client") EXCEPT !.i = NextConfigured(1)] IN
       IF r.i <= NumAssistants
       THEN Commit(t, r, FALSE, db, heap)
       ELSE Commit(t, [r EXCEPT !.result = "returns"], TRUE, db, heap)
  /\ UNCHANGED <<active, activeVideo, musicOn, loopv, engine, cache, autoend, counter, env, plugins>>

\* await client.start() inside try/except (lines 541-545).
StClient(t) ==
  LET r == tasks[t] IN
  /\ r.pc = "st_client"
  /\ \E ok \in BOOLEAN :
       LET nxt == AfterStart(r.i, ok)
           r1 == [r EXCEPT !.starts = Append(@, r.i),
                           !.nraise = IF ok THEN @ ELSE @ + 1, !.i = nxt]
       IN IF nxt <= NumAssistants
          THEN Commit(t, r1, FALSE, db, heap)
          ELSE Commit(t, [r1 EXCEPT !.result = "returns"], TRUE, db, heap)
  /\ UNCHANGED <<active, activeVideo, musicOn, loopv, engine, cache, autoend, counter, env, plugins>>

\* ---------------------------------------------------- force_stop_stream
ForcePopAll(check) == <<>>

\* if check: check.pop(0) (lines 181-182).
ForcePop(check) == IF check # <<>> THEN Tail(check) ELSE check

\* Lines 178-185: check = db.get(chat_id); if check: check.pop(0).
ForceStopStreamStart(t) ==
  /\ Free(t)
  /\ Commit(t, Begin("force_stop_stream", "rmv"), FALSE, db,
            IF db # NoList THEN [heap EXCEPT ![db] = ForcePop(@)] ELSE heap)
  /\ UNCHANGED <<active, activeVideo, musicOn, loopv, engine, cache, autoend, counter, env, plugins>>

\* ---------------------------------------------------------- skip_stream
SkipLinks == { <<"downloads/", "a">>, <<"https://live/", "x">> }

SkipMediaFixed(link, video) ==
  [src |-> <<"downloads/", "a">>, flags |-> VideoFlags(video)]

\* MediaStream(link, video_flags=HD_720p) or MediaStream(link) (lines 203-215).
SkipMedia(link, video) == [src |-> link, flags |-> VideoFlags(video)]

SkipStreamStart(t) ==
  /\ Free(t)
  /\ \E link \in SkipLinks, video \in BOOLEAN :
       Commit(t, [Begin("skip_stream", "sk_play") EXCEPT !.src = link, !.video = video,
                    !.loop0 = loopv, !.ae0 = autoend],
              FALSE, db, heap)
  /\ UNCHANGED <<active, activeVideo, musicOn, loopv, engine, cache, autoend, counter, env, plugins>>

\* await assistant.play(chat_id, MediaStream(link, ...)) (lines 203-215).
SkPlay(t) ==
  LET m == SkipMedia(tasks[t].src, tasks[t].video)
      r == [tasks[t] EXCEPT !.plays = Append(@, m)] IN
  /\ r.pc = "sk_play"
  /\ \E ok \in BOOLEAN :
       /\ engine' = IF ok THEN Played(m.src, m.flags) ELSE engine
       /\ Commit(t, [r EXCEPT !.result = IF ok THEN "returns" ELSE "EngineError"],
                 TRUE, db, heap)
  /\ UNCHANGED <<active, activeVideo, musicOn, loopv, cache, autoend, counter, env, plugins>>

\* ------------------------------------- pause_stream, resume_stream, seek_stream
\* await assistant.pause_stream(chat_id) with no try around it (lines 88-90).
PauseStream(t) ==
  /\ Free(t)
  /\ \E ok \in BOOLEAN :
       Commit(t, [Begin("pause_stream", "done") EXCEPT
                    !.result = IF ok THEN "returns" ELSE "EngineError"],
              TRUE, db, heap)
  /\ UNCHANGED <<active, activeVideo, musicOn, loopv, engine, cache, autoend, counter, env, plugins>>

\* await assistant.resume_stream(chat_id) with no try around it (lines 92-94).
ResumeStream(t) ==
  /\ Free(t)
  /\ \E ok \in BOOLEAN :
       Commit(t, [Begin("resume_stream", "done") EXCEPT
                    !.result = IF ok THEN "returns" ELSE "EngineError"],
              TRUE, db, heap)
  /\ UNCHANGED <<active, activeVideo, musicOn, loopv, engine, cache, autoend, counter, env, plugins>>

\* The positions, durations and modes a seek is asked with.
SeekArgs == {"0:10", "1:30"} \X {"4:00"} \X {"audio", "video"}

SeekMediaOffset(file_path, to_seek, duration, mode) ==
  [src |-> file_path, flags |-> {<<"-ss", to_seek, "-to", duration>>}]

\* MediaStream(file_path) (lines 220-223): to_seek, duration and mode are not used.
SeekMedia(file_path, to_seek, duration, mode) == [src |-> file_path, flags |-> {}]

\* await assistant.play(chat_id, MediaStream(file_path)) with no try around it
\* (lines 217-223).
SeekStream(t) ==
  /\ Free(t)
  /\ \E file \in SkipLinks, a \in SeekArgs, ok \in BOOLEAN :
       LET m == SeekMedia(file, a[1], a[2], a[3])
           r == [Begin("seek_stream", "done") EXCEPT
                   !.src = file, !.seek = a, !.plays = <<m>>] IN
       /\ engine' = IF ok THEN Played(m.src, m.flags) ELSE engine
       /\ Commit(t, [r EXCEPT !.result = IF ok THEN "returns" ELSE "EngineError"],
                 TRUE, db, heap)
  /\ UNCHANGED <<active, activeVideo, musicOn, loopv, cache, autoend, counter, env, plugins>>

\* ------------------------------------------------------- speedup_stream
\* The downloaded files a speed change is asked for.
SpeedFiles == { <<"downloads/", "a">>, <<"tgdl/", "a">> }

\* playing is the caller's reference to the chat's list.
SpeedupStreamStart(t) ==
  /\ Free(t)
  /\ Q(db) # <<>>
  /\ \E fp \in SpeedFiles, speed \in Speeds :
       Commit(t, [Begin("speedup_stream", "sp_file") EXCEPT !.fp = fp, !.speed = speed],
              FALSE, db, heap)
  /\ UNCHANGED <<active, activeVideo, musicOn, loopv, engine, cache, autoend, counter, env, plugins>>

\* Lines 121-128: the output path and the test os.path.isfile(out).
SpFile(t) ==
  LET r == tasks[t]
      out == SpeedOut(r.fp, r.speed)
      cached == \E e \in cache : e.out = out
  IN /\ r.pc = "sp_file"
     /\ Commit(t, [r EXCEPT !.src = out,
                            !.pc = IF r.speed # "1.0" /\ ~cached
                                   THEN "sp_ffmpeg" ELSE "sp_dur"],
               FALSE, db, heap)
     /\ UNCHANGED <<active, activeVideo, musicOn, loopv, engine, cache, autoend, counter, env, plugins>>

\* Lines 138-148: ffmpeg writes out from file_path (an existing out is kept).
SpFfmpeg(t) ==
  LET r == tasks[t] IN
  /\ r.pc = "sp_ffmpeg"
  /\ cache' = IF \E e \in cache : e.out = r.src THEN cache
              ELSE cache \cup {[out |-> r.src, from |-> r.fp, speed |-> r.speed]}
  /\ Commit(t, [r EXCEPT !.pc = "sp_dur"], FALSE, db, heap)
  /\ UNCHANGED <<active, activeVideo, musicOn, loopv, engine, autoend, counter, env, plugins>>

\* Lines 152-164: the duration of out, the converted position, the guard.
SpDur(t) ==
  LET r == tasks[t] IN
  /\ r.pc = "sp_dur"
  /\ IF Q(r.lst) = <<>> \/ Q(db) = <<>>
     THEN Commit(t, [r EXCEPT !.result = "IndexError"], TRUE, db, heap)
     ELSE IF SpeedGuard(Q(db)[1].file, r.fp)
     THEN Commit(t, [r EXCEPT !.dur = CheckDuration(r.src),
                              !.con = SpeedConverter(Q(r.lst)[1].played, r.speed),
                              !.pc = "sp_play"], FALSE, db, heap)
     ELSE Commit(t, [r EXCEPT !.result = "AssistantErr"],
                 TRUE, db, heap)
  /\ UNCHANGED <<active, activeVideo, musicOn, loopv, engine, cache, autoend, counter, env, plugins>>

TakeSnapshotAlways(exis) == TRUE

\* exis = (playing[0]).get("old_dur"); if not exis (lines 167-168).
TakeSnapshot(exis) == exis = NoDur

\* Line 159: await assistant.play(chat_id, MediaStream(out)); lines 166-175.
SpPlay(t) ==
  LET r == [tasks[t] EXCEPT !.plays = Append(@, [src |-> tasks[t].src, flags |-> {}])] IN
  /\ r.pc = "sp_play"
  /\ \E ok \in BOOLEAN :
       IF ~ok
       THEN /\ engine' = engine
            /\ Commit(t, [r EXCEPT !.result = "EngineError"], TRUE, db, heap)
       ELSE /\ engine' = Played(r.src, {})
            /\ IF Q(db) = <<>>
               THEN Commit(t, [r EXCEPT !.result = "IndexError"], TRUE, db, heap)
               ELSE IF ~SpeedGuard(Q(db)[1].file, r.fp)
               THEN Commit(t, [r EXCEPT !.result = "returns"], TRUE, db, heap)
               ELSE IF Q(r.lst) = <<>>
               THEN Commit(t, [r EXCEPT !.result = "IndexError"], TRUE, db, heap)
               ELSE LET hd == Q(db)[1]
                        snap == TakeSnapshot(Q(r.lst)[1].old_dur)
                    IN Commit(t, [r EXCEPT !.result = "returns"], TRUE, db,
                         [heap EXCEPT ![db][1] =
                            [hd EXCEPT
                               !.old_dur = IF snap THEN hd.dur ELSE @,
                               !.old_second = IF snap THEN hd.seconds ELSE @,
                               !.played = r.con,
                               !.dur = SecondsToMin(r.dur),
                               !.seconds = r.dur,
                               !.speed_path = r.src,
                               !.speed = r.speed]])
  /\ UNCHANGED <<active, activeVideo, musicOn, loopv, cache, autoend, counter, env, plugins>>

\* -------------------------------------------------- play request, join_call
\* The source a play request resolves its track to before it calls join_call.
RequestSource(tr) == RouteSource(Route(tr.file), tr.file, tr.vidid)

\* put_queue: the descriptor is appended to the chat's list (created if missing).
PutQueue(tr) ==
  IF db = NoList
  THEN LET l == NewList(tasks) IN <<l, [heap EXCEPT ![l] = <<tr>>]>>
  ELSE <<db, [heap EXCEPT ![db] = Append(@, tr)]>>

\* A play request for a chat that is already active only enqueues.
Enqueue ==
  /\ active
  /\ Len(Q(db)) < MaxQueue
  /\ \E tr \in env.cat : EnvCommit(PutQueue(tr)[1], PutQueue(tr)[2])
  /\ UNCHANGED <<active, activeVideo, musicOn, loopv, engine, cache, autoend, counter, env, plugins>>

\* A play request for a chat that is not active and has nothing queued
\* enqueues its track and calls join_call (lines 242-244 await the assistant
\* and the language).
JoinCallStart(t) ==
  /\ Free(t)
  /\ ~active
  /\ Q(db) = <<>>
  /\ \E tr \in env.cat :
       Commit(t, [Begin("join_call", "jc_play") EXCEPT
                    !.src = RequestSource(tr), !.video = tr.streamtype = "video",
                    !.lst = NoList, !.q0 = <<>>, !.ae0 = autoend,
                    !.act0 = <<active, activeVideo, musicOn, counter>>],
              FALSE, PutQueue(tr)[1], PutQueue(tr)[2])
  /\ UNCHANGED <<active, activeVideo, musicOn, loopv, engine, cache, autoend, counter, env, plugins>>

JoinFlags(video) == IF video THEN {"video:HD_720p", "audio:STUDIO"} ELSE {}

\* Lines 246-268: the play command and the classification of its failure.
JcPlay(t) ==
  LET r == [tasks[t] EXCEPT !.plays = Append(@, [src |-> tasks[t].src,
                                                 flags |-> JoinFlags(tasks[t].video)])] IN
  /\ r.pc = "jc_play"
  /\ \/ /\ engine' = Played(r.src, JoinFlags(r.video))
        /\ Commit(t, [r EXCEPT !.pc = "jc_active"], FALSE, db, heap)
     \/ \E msg \in ErrMsgs :
          /\ engine' = engine
          /\ Commit(t, [r EXCEPT !.result = "AssistantErr", !.err = msg,
                                  !.route = JoinError(Lower(msg))],
                    TRUE, db, heap)
  /\ UNCHANGED <<active, activeVideo, musicOn, loopv, cache, autoend, counter, env, plugins>>

\* await add_active_chat(chat_id) (line 270).
JcActive(t) ==
  /\ tasks[t].pc = "jc_active"
  /\ active' = TRUE
  /\ Commit(t, [tasks[t] EXCEPT !.pc = "jc_music"], FALSE, db, heap)
  /\ UNCHANGED <<activeVideo, musicOn, loopv, engine, cache, autoend, counter, env, plugins>>

\* await music_on(chat_id) (line 271).
JcMusic(t) ==
  LET r == tasks[t] IN
  /\ r.pc = "jc_music"
  /\ musicOn' = TRUE
  /\ Commit(t, [r EXCEPT !.pc = IF r.video THEN "jc_video" ELSE "jc_autoend"],
            FALSE, db, heap)
  /\ UNCHANGED <<active, activeVideo, loopv, engine, cache, autoend, counter, env, plugins>>

\* await add_active_video_chat(chat_id) (line 274).
JcVideo(t) ==
  /\ tasks[t].pc = "jc_video"
  /\ activeVideo' = TRUE
  /\ Commit(t, [tasks[t] EXCEPT !.pc = "jc_autoend"], FALSE, db, heap)
  /\ UNCHANGED <<active, musicOn, loopv, engine, cache, autoend, counter, env, plugins>>

\* await is_autoend() and counter[chat_id] = {} (lines 276-277).
JcAutoend(t) ==
  LET r == tasks[t] IN
  /\ r.pc = "jc_autoend"
  /\ LET enabled == env.autoendOn IN
       IF enabled
       THEN /\ counter' = TRUE
            /\ Commit(t, [r EXCEPT !.pc = "jc_users"], FALSE, db, heap)
       ELSE /\ counter' = counter
            /\ Commit(t, [r EXCEPT !.result = "returns"], TRUE, db, heap)
  /\ UNCHANGED <<active, activeVideo, musicOn, loopv, engine, cache, autoend, env, plugins>>

AutoendDueAlways(users) == TRUE

\* users == 1 (line 280); an exception of get_participants skips the test.
AutoendDue(users) == users = 1

\* Lines 278-283: the participant count; 0 stands for a raised exception.
JcUsers(t) ==
  LET r == tasks[t] IN
  /\ r.pc = "jc_users"
  /\ \E users \in env.users :
       /\ autoend' = (IF AutoendDue(users) THEN TRUE ELSE autoend)
       /\ Commit(t, [r EXCEPT !.i = users, !.result = "returns"], TRUE, db, heap)
  /\ UNCHANGED <<active, activeVideo, musicOn, loopv, engine, cache, counter, env, plugins>>

\* ------------------------------------------------------------ environment
\* The playback position of the playing head advances.
Tick ==
  /\ engine # NotInCall
  /\ Q(db) # <<>>
  /\ Q(db)[1].played < MaxPlayed
  /\ EnvCommit(db, [heap EXCEPT ![db][1].played = @ + 1])
  /\ UNCHANGED <<active, activeVideo, musicOn, loopv, engine, cache, autoend, counter, env, plugins>>

\* The loop command stores a repeat count for the chat.
SetLoopCmd ==
  /\ \E n \in 1..MaxLoop : loopv' = n /\ n # loopv
  /\ EnvCommit(db, heap)
  /\ UNCHANGED <<active, activeVideo, musicOn, engine, cache, autoend, counter, env, plugins>>

\* Play requests.
PlayOps ==
  \/ \E t \in Tasks : JoinCallStart(t)
  \/ \E t \in Tasks : JcPlay(t)
  \/ \E t \in Tasks : JcActive(t)
  \/ \E t \in Tasks : JcMusic(t)
  \/ \E t \in Tasks : JcVideo(t)
  \/ \E t \in Tasks : JcAutoend(t)
  \/ \E t \in Tasks : JcUsers(t)

\* A play request for an active chat.
QueueOps ==
  \/ Enqueue

\* The loop command.
LoopOps ==
  \/ SetLoopCmd

\* The queue advance and the teardown steps.
AdvanceOps ==
  \/ \E t \in Tasks : ChangeStreamStart(t)
  \/ \E t \in Tasks : CsLoop(t)
  \/ \E t \in Tasks : CsSetLoop(t)
  \/ \E t \in Tasks : CsClean(t)
  \/ \E t \in Tasks : CsLang(t)
  \/ \E t \in Tasks : CsResolve(t)
  \/ \E t \in Tasks : CsPlay(t)
  \/ \E t \in Tasks : CsThumb(t)
  \/ \E t \in Tasks : CsSend(t)
  \/ \E t \in Tasks : Rmv(t)
  \/ \E t \in Tasks : Rma(t)
  \/ \E t \in Tasks : Leave(t)

StopOps ==
  \/ \E t \in Tasks : StopStreamStart(t)

ForceOps ==
  \/ \E t \in Tasks : StopStreamForceStart(t)
  \/ \E t \in Tasks : SfLeave(t)
  \/ \E t \in Tasks : ForceStopStreamStart(t)

\* The operations that replace the engine's source outside the queue advance.
StreamOps ==
  \/ \E t \in Tasks : PauseStream(t)
  \/ \E t \in Tasks : ResumeStream(t)
  \/ \E t \in Tasks : SeekStream(t)
  \/ \E t \in Tasks : SkipStreamStart(t)
  \/ \E t \in Tasks : SkPlay(t)
  \/ \E t \in Tasks : SpeedupStreamStart(t)
  \/ \E t \in Tasks : SpFile(t)
  \/ \E t \in Tasks : SpFfmpeg(t)
  \/ \E t \in Tasks : SpDur(t)
  \/ \E t \in Tasks : SpPlay(t)
  \/ Tick

\* The speed change and the playback position.
SpeedOps ==
  \/ \E t \in Tasks : SpeedupStreamStart(t)
  \/ \E t \in Tasks : SpFile(t)
  \/ \E t \in Tasks : SpFfmpeg(t)
  \/ \E t \in Tasks : SpDur(t)
  \/ \E t \in Tasks : SpPlay(t)
  \/ Tick

\* force_stop_stream with its teardown steps.
PopOps ==
  \/ \E t \in Tasks : ForceStopStreamStart(t)
  \/ \E t \in Tasks : Rmv(t)
  \/ \E t \in Tasks : Rma(t)
  \/ \E t \in Tasks : Leave(t)

\* ping() and start().
BootOps ==
  \/ \E t \in Tasks : Ping(t)
  \/ \E t \in Tasks : StartClients(t)
  \/ \E t \in Tasks : StClient(t)

Next == PlayOps \/ QueueOps \/ LoopOps \/ AdvanceOps \/ StopOps \/ ForceOps

NextStream == PlayOps \/ QueueOps \/ StreamOps \/ PopOps

NextConc == PlayOps \/ AdvanceOps \/ StopOps

NextSpeed == PlayOps \/ QueueOps \/ AdvanceOps \/ SpeedOps

NextRace == PlayOps \/ QueueOps \/ AdvanceOps

NextSpeedRace == PlayOps \/ QueueOps \/ SpeedOps \/ PopOps

\* One coroutine at a time: play requests, queue advance and the stop operations.
Spec == Init /\ [][Next]_vars

\* One coroutine at a time: play requests, skip, speed change, force_stop_stream.
SpecStream == InitStream /\ [][NextStream]_vars

\* Two coroutines interleaving at their awaits: play requests, queue advance
\* and stop_stream.
SpecConc == InitConc /\ [][NextConc]_vars

\* One coroutine at a time: play requests, speed change, queue advance.
SpecSpeed == InitSpeed /\ [][NextSpeed]_vars

\* Two coroutines interleaving at their awaits: play requests and queue
\* advance, from a stored loop count of 0 or 2.
SpecRace == InitRace /\ [][NextRace]_vars

\* Two coroutines interleaving at their awaits: play requests, speed change
\* and force_stop_stream.
SpecSpeedRace == InitSpeedRace /\ [][NextSpeedRace]_vars

\* ping() and start() over the configured assistants.
SpecBoot == InitBoot /\ [][BootOps]_vars

\* One coroutine at a time, with flag removals that can raise.
SpecCleanup == InitCleanup /\ [][Next]_vars

\* ------------------------------------------------------------ properties
\* fin is the record of the coroutine that ended in the last step: what it was
\* asked, what it called, and (when nothing else ran meanwhile) the queue q0
\* and the flags act0 it started from.
Key(tr) == <<tr.file, tr.vidid, tr.streamtype, tr.chat_id>>

Keys(q) == [i \in 1..Len(q) |-> Key(q[i])]

Quiescent == \A t \in Tasks : tasks[t].op = "idle"

Advanced == fin.op = "change_stream" /\ fin.alone

\* The queue a lone change_stream works on after lines 291-295.
KeptQueue == IF fin.loop0 = 0 /\ fin.q0 # <<>> THEN Tail(fin.q0) ELSE fin.q0

\* The head is the same track as before; the entries behind it are untouched.
SameQueue(q, old) ==
  /\ Keys(q) = Keys(old)
  /\ \A i \in 2..Len(q) : q[i] = old[i]

ExpectedSource(tr) == RouteSource(Route(tr.file), tr.file, tr.vidid)

\* C1: with loop 0 and at least two entries, a change_stream that runs alone
\* removes exactly the head: the queue afterwards is the former queue without
\* its first entry, in the same order.
C1_PopExactlyHead ==
  (Advanced /\ fin.loop0 = 0 /\ Len(fin.q0) >= 2)
    => /\ Len(Q(db)) = Len(fin.q0) - 1
       /\ SameQueue(Q(db), Tail(fin.q0))

C1_Witness ==
  /\ Advanced /\ fin.loop0 = 0 /\ Len(fin.q0) >= 2
  /\ Len(Q(db)) = Len(fin.q0) - 1
  /\ Key(fin.q0[1]) # Key(fin.q0[2])
  /\ Key(Q(db)[1]) = Key(fin.q0[2])

\* C2: with loop N > 0 and a non-empty queue, a change_stream that runs alone
\* stores N - 1, keeps every entry in place and calls no leave_call.
C2_LoopKeepsQueue ==
  (Advanced /\ fin.loop0 > 0 /\ fin.q0 # <<>>)
    => /\ loopv = fin.loop0 - 1
       /\ SameQueue(Q(db), fin.q0)
       /\ fin.leaves = <<>>

C2_Witness ==
  /\ Advanced /\ fin.loop0 > 0 /\ Len(fin.q0) >= 2
  /\ loopv = fin.loop0 - 1
  /\ Len(fin.plays) = 1 /\ fin.plays[1].src = ExpectedSource(fin.q0[1])

\* C3: with loop 0 and one entry, a change_stream that runs alone ends with the
\* queue empty, both active flags removed and leave_call invoked on the chat's
\* assistant, and issues no play command.
C3_TeardownOnLast ==
  (Advanced /\ fin.loop0 = 0 /\ Len(fin.q0) = 1)
    => /\ Q(db) = <<>>
       /\ ~active /\ ~activeVideo
       /\ fin.leaves # <<>>
       /\ \A i \in 1..Len(fin.leaves) : fin.leaves[i] = GroupAssistant
       /\ fin.plays = <<>>
       /\ fin.result = "returns"

C3_Witness ==
  /\ Advanced /\ fin.loop0 = 0 /\ Len(fin.q0) = 1
  /\ fin.act0 = <<TRUE, TRUE>>
  /\ ~active /\ ~activeVideo /\ engine = NotInCall

\* C4: a chat marked active has a non-empty queue (stated here only for the
\* states in which no operation is in flight).
C4_ActiveHasQueue == (Quiescent /\ active) => Q(db) # <<>>

\* C5: whenever the engine is streaming in the chat, the source it was last
\* commanded to play is the one resolved from the head of the queue (stated
\* here only for a chat marked active with no operation in flight).
C5_EnginePlaysHead ==
  (Quiescent /\ active /\ engine # NotInCall)
    => /\ Q(db) # <<>>
       /\ engine = ExpectedSource(Q(db)[1])

\* C6: the route of an advance is chosen by the prefix of the new head's file:
\* live_ -> live lookup and play of the link, vid_ -> download and play of the
\* path, index_ -> play of the vidid, anything else -> play of the file itself,
\* with a resolver call on the first two routes only.
PrefixRoute(file) ==
  IF StartsWith("live_", file) THEN "live"
  ELSE IF StartsWith("vid_", file) THEN "vid"
  ELSE IF StartsWith("index_", file) THEN "index"
  ELSE "direct"

C6_RouteByPrefix ==
  (fin.op = "change_stream" /\ (fin.res # <<>> \/ fin.plays # <<>>))
    => LET want == PrefixRoute(fin.queued) IN
       /\ Len(fin.res) = (IF want \in {"live", "vid"} THEN 1 ELSE 0)
       /\ \A i \in 1..Len(fin.res) : fin.res[i].route = want
       /\ Len(fin.plays) <= 1
       /\ \A i \in 1..Len(fin.plays) :
            fin.plays[i].src = RouteSource(want, fin.queued, fin.vid)

\* C7: a speedup_stream whose file_path is not the file of the queue head ends
\* with AssistantErr, issues no play command and leaves every queue entry as
\* it was.
C7_StaleSpeedupRejected ==
  (fin.op = "speedup_stream" /\ fin.alone /\ fin.q0 # <<>>
     /\ fin.q0[1].file # fin.fp)
    => /\ fin.result = "AssistantErr"
       /\ fin.plays = <<>>
       /\ Q(db) = fin.q0

C7_Witness ==
  /\ fin.op = "speedup_stream" /\ fin.alone /\ Len(fin.q0) >= 2
  /\ fin.q0[1].file # fin.fp
  /\ fin.q0[2].file = fin.fp
  /\ fin.speed = "2.0"
  /\ fin.result = "AssistantErr"

\* C8: stop_stream_force calls leave_call once on every configured assistant,
\* in order, whichever of the calls raise, then clears the chat's state, and
\* returns normally.
C8_ForceStopLeavesAll ==
  fin.op = "stop_stream_force"
    => /\ Len(fin.leaves) = Cardinality(env.configured)
       /\ \A i \in 1..Len(fin.leaves) : fin.leaves[i] \in env.configured
       /\ \A i, j \in 1..Len(fin.leaves) : i < j => fin.leaves[i] < fin.leaves[j]
       /\ fin.result = "returns"
       /\ fin.alone => (Q(db) = <<>> /\ ~active /\ ~activeVideo)

C8_Witness ==
  /\ fin.op = "stop_stream_force" /\ fin.alone
  /\ Len(fin.leaves) = NumAssistants
  /\ fin.nraise = 2
  /\ fin.q0 # <<>> /\ fin.act0 = <<TRUE, TRUE>>
  /\ Q(db) = <<>> /\ ~active /\ ~activeVideo

C10_ResolveFailureWedges ==
  (Advanced /\ fin.res # <<>> /\ ~fin.res[1].ok)
    => /\ KeptQueue # <<>>
       /\ fin.notes = <<KeptQueue[1].chat_id>>
       /\ fin.plays = <<>>
       /\ SameQueue(Q(db), KeptQueue)
       /\ fin.act0 = <<active, activeVideo>>
       /\ fin.leaves = <<>>
       /\ fin.result = "returns"

C10_Witness ==
  /\ Advanced /\ fin.res # <<>> /\ ~fin.res[1].ok
  /\ fin.res[1].route = "vid"
  /\ fin.loop0 = 0 /\ Len(fin.q0) >= 2
  /\ Key(Q(db)[1]) = Key(fin.q0[2])
  /\ fin.notes = <<"c0">>
  /\ active

\* C11: when the play command for the new head raises in change_stream, the
\* track's original chat is notified and change_stream returns normally; the
\* failed track stays at the head, the active flags are as before, leave_call
\* is not called and no announcement handle is stored.
C11_PlayFailureWedges ==
  (Advanced /\ fin.plays # <<>> /\ fin.nraise > 0)
    => /\ KeptQueue # <<>>
       /\ fin.result = "returns"
       /\ fin.notes = <<KeptQueue[1].chat_id>>
       /\ Len(fin.plays) = 1
       /\ SameQueue(Q(db), KeptQueue)
       /\ Q(db)[1].mystic = KeptQueue[1].mystic
       /\ Q(db)[1].markup = KeptQueue[1].markup
       /\ fin.act0 = <<active, activeVideo>>
       /\ fin.leaves = <<>>

C11_Witness ==
  /\ Advanced /\ fin.plays # <<>> /\ fin.nraise > 0
  /\ fin.route = "index"
  /\ fin.loop0 = 0 /\ Len(fin.q0) >= 2
  /\ Key(Q(db)[1]) = Key(fin.q0[2])
  /\ Q(db)[1].mystic = NoMsg
  /\ active /\ engine = ExpectedSource(fin.q0[1])

\* C12: when change_stream has moved on to a non-empty queue and is about to
\* resolve or play the head, the head has played = 0 and, if it carries an
\* old_dur snapshot, dur = old_dur, seconds = old_second, speed 1.0 and no
\* speed_path: no speed override survives a transition or a loop repeat.
AboutToPlay(t) ==
  /\ tasks[t].op = "change_stream"
  /\ tasks[t].pc \in {"cs_resolve", "cs_play"}
  /\ tasks[t].alone

C12_HeadResetBeforePlay ==
  \A t \in Tasks :
    AboutToPlay(t)
      => /\ Q(db) # <<>>
         /\ LET hd == Q(db)[1] IN
              /\ hd.played = 0
              /\ hd.old_dur # NoDur
                   => /\ hd.dur = hd.old_dur
                      /\ hd.seconds = hd.old_second
                      /\ hd.speed = "1.0"
                      /\ hd.speed_path = NoSrc

C12_Witness ==
  \E t \in Tasks :
    /\ AboutToPlay(t) /\ tasks[t].pc = "cs_play"
    /\ tasks[t].loop0 > 0
    /\ tasks[t].q0 # <<>>
    /\ tasks[t].q0[1].speed = "2.0" /\ tasks[t].q0[1].played > 0
    /\ tasks[t].q0[1].seconds = 2
    /\ Q(db)[1].seconds = 4 /\ Q(db)[1].speed = "1.0" /\ Q(db)[1].played = 0

\* C13: with change_stream as the only writer, the stored loop count is never
\* negative and every change of it is a decrement by one.
C13_LoopOnlyDecrements ==
  [](loopv >= 0) /\ [][loopv' = loopv \/ loopv' = loopv - 1]_vars

\* C14: stop_stream has emptied the queue and removed both active flags when
\* it calls leave_call, and when leave_call raises it returns normally with
\* the state still cleared.
ClearedState == Q(db) = <<>> /\ ~active /\ ~activeVideo

C14_StopClearsThenLeaves ==
  /\ \A t \in Tasks :
       (tasks[t].op = "stop_stream" /\ tasks[t].pc = "leave" /\ tasks[t].alone)
         => (ClearedState /\ tasks[t].leaves = <<>>)
  /\ fin.op = "stop_stream"
       => /\ fin.result = "returns"
          /\ fin.leaves = <<GroupAssistant>>
          /\ fin.alone => ClearedState

C14_Witness ==
  /\ fin.op = "stop_stream" /\ fin.alone
  /\ fin.nraise = 1
  /\ Len(fin.q0) = 2 /\ fin.act0 = <<TRUE, TRUE>>
  /\ ClearedState
  /\ engine # NotInCall

\* C15: in stop_stream, stop_stream_force, force_stop_stream and the teardown
\* of change_stream, leave_call is attempted even when a flag removal raises,
\* and the flags are removed even when leave_call raises.
TornDown ==
  \/ fin.op \in {"stop_stream", "stop_stream_force", "force_stop_stream"}
  \/ fin.op = "change_stream" /\ (fin.handler \/ fin.sraise > 0 \/ fin.leaves # <<>>)

C15_CleanupStepsIndependent ==
  TornDown
    => /\ fin.leaves # <<>>
       /\ (fin.alone /\ fin.sraise = 0) => (~active /\ ~activeVideo)

\* C16: force_stop_stream removes exactly the head of the queue (nothing on a
\* missing or empty queue), removes both active flags, and then calls
\* leave_call once; a raising leave_call is not raised to the caller.
C16_ForceStopPopsHead ==
  /\ \A t \in Tasks :
       (tasks[t].op = "force_stop_stream" /\ tasks[t].pc = "leave" /\ tasks[t].alone)
         => (~active /\ ~activeVideo /\ tasks[t].leaves = <<>>)
  /\ fin.op = "force_stop_stream"
       => /\ fin.result = "returns"
          /\ fin.leaves = <<GroupAssistant>>
          /\ fin.alone
               => /\ Q(db) = (IF fin.q0 = <<>> THEN <<>> ELSE Tail(fin.q0))
                  /\ ~active /\ ~activeVideo

C16_Witness ==
  /\ fin.op = "force_stop_stream" /\ fin.alone
  /\ Len(fin.q0) = 2 /\ Q(db) = <<fin.q0[2]>>
  /\ fin.act0 = <<TRUE, TRUE>> /\ ~active /\ ~activeVideo
  /\ fin.nraise = 1

\* C17: a join_call whose play command succeeds returns normally with the chat
\* marked active and music-on, marked active-for-video exactly when video is
\* set, and, when auto-end is enabled, with the counter reset and a deadline
\* recorded exactly when the participant count read was 1; a failing
\* participant query does not fail the join.
C17_JoinMarksChat ==
  (fin.op = "join_call" /\ fin.result # "AssistantErr")
    => /\ fin.result = "returns"
       /\ active /\ musicOn
       /\ activeVideo = fin.video
       /\ env.autoendOn
            => /\ counter
               /\ fin.i = 1 => autoend
               /\ fin.i # 1 => autoend = fin.ae0
       /\ ~env.autoendOn => (autoend = fin.ae0)

C17_Witness ==
  /\ fin.op = "join_call" /\ fin.result = "returns"
  /\ fin.video /\ activeVideo /\ active /\ musicOn
  /\ env.autoendOn /\ counter
  /\ fin.i = 1 /\ autoend /\ ~fin.ae0

\* C18: when the play command fails in join_call, join_call raises one
\* AssistantErr whose message is chosen from the lower-cased engine text:
\* "no active" or "not found" -> call_8, otherwise "already" or "joined" ->
\* call_9, otherwise call_10; no flag, counter or autoend record is written.
Mentions(word, err) == \E i \in 1..Len(err) : LowerPiece(err[i]) = word

ClaimedJoinMessage(err) ==
  IF Mentions("no active", err) \/ Mentions("not found", err) THEN "call_8"
  ELSE IF Mentions("already", err) \/ Mentions("joined", err) THEN "call_9"
  ELSE "call_10"

C18_JoinFailureClassified ==
  (fin.op = "join_call" /\ fin.err # <<>>)
    => /\ fin.result = "AssistantErr"
       /\ fin.route = ClaimedJoinMessage(fin.err)
       /\ Len(fin.plays) = 1
       /\ ~active /\ ~activeVideo
       /\ autoend = fin.ae0
       /\ fin.alone => fin.act0 = <<active, activeVideo, musicOn, counter>>

C18_Witness ==
  /\ fin.op = "join_call" /\ fin.alone
  /\ fin.err = <<"not found", ": ", "already", " ", "joined">>
  /\ fin.route = "call_8"
  /\ fin.result = "AssistantErr"
  /\ ~active /\ musicOn /\ engine = NotInCall

\* C19: an exception raised by an engine call (play, leave_call, pause_stream,
\* resume_stream) is caught inside every public operation: the operation
\* returns normally or raises an error with a localized message, and no raw
\* engine exception reaches the caller.
PublicOps ==
  { "pause_stream", "resume_stream", "stop_stream", "stop_stream_force",
    "force_stop_stream", "skip_stream", "seek_stream", "speedup_stream",
    "join_call", "change_stream" }

C19_NoRawEngineError ==
  fin.op \in PublicOps => fin.result # "EngineError"

\* C20: queue advance has no per-chat mutual exclusion: while a change_stream
\* is suspended after its pop, a second one can start, and its pop (loop 0)
\* takes the head of the list both hold, so that a list that held n entries when
\* the first popped, with nothing added since, is left with n - 2 entries.
SuspendedAfterPop(u) ==
  /\ tasks[u].op = "change_stream" /\ tasks[u].pc = "cs_clean"
  /\ tasks[u].loop0 = 0 /\ tasks[u].had >= 2
  /\ Len(heap[tasks[u].lst]) = tasks[u].had - 1

PopsNow(t) ==
  /\ tasks[t].op = "change_stream" /\ tasks[t].pc = "cs_loop"
  /\ tasks'[t].pc = "cs_clean" /\ tasks'[t].loop0 = 0

C20_OverlappingAdvance ==
  /\ [](\A u \in Tasks :
         (SuspendedAfterPop(u) /\ \E t \in Tasks : tasks[t].op = "idle")
           => ENABLED (\E t \in Tasks : ChangeStreamStart(t)))
  /\ [][\A t, u \in Tasks :
         (t # u /\ SuspendedAfterPop(u) /\ PopsNow(t) /\ tasks[t].lst = tasks[u].lst)
           => /\ heap'[tasks[u].lst] = Tail(heap[tasks[u].lst])
              /\ Len(heap'[tasks[u].lst]) = tasks[u].had - 2
              /\ tasks'[t].had = tasks[u].had - 1]_vars

C20_Witness ==
  \E t, u \in Tasks :
    /\ t # u
    /\ tasks[t].op = "change_stream" /\ tasks[t].pc = "cs_clean"
    /\ tasks[u].op = "change_stream" /\ tasks[u].pc = "cs_clean"
    /\ tasks[t].loop0 = 0 /\ tasks[u].loop0 = 0
    /\ tasks[t].lst = db /\ tasks[u].lst = db
    /\ tasks[u].had = 2 /\ tasks[t].had = 1
    /\ Q(db) = <<>>

\* C21: ping() returns the text of the mean (to three decimals) of the pings
\* of exactly the assistants that are configured and report a positive ping;
\* unconfigured assistants and readings that are zero, None or raise count
\* neither in the sum nor in the number; with no such assistant it is "0.0".
Ponging == {i \in env.configured : fin.readings[i].k = "value" /\ fin.readings[i].v > 0}

RECURSIVE PingTotal(_)
PingTotal(S) ==
  IF S = {} THEN 0
  ELSE LET i == CHOOSE x \in S : TRUE IN fin.readings[i].v + PingTotal(S \ {i})

C21_PingIsMeanOfPositive ==
  fin.op = "ping" =>
    /\ fin.result = "returns"
    /\ Len(fin.pings) = Cardinality(Ponging)
    /\ IF Ponging = {} THEN fin.text = <<0, 0>>
       ELSE LET n == Cardinality(Ponging)
                d == 1000 * PingTotal(Ponging) - (1000 * fin.text[1] + fin.text[2]) * n
            IN /\ fin.text[2] \in 0..999
               /\ 2 * d <= n /\ -2 * d <= n
               /\ (PingTotal(Ponging) % n = 0) =>
                     fin.text = <<PingTotal(Ponging) \div n, 0>>

C21_Witness ==
  /\ fin.op = "ping" /\ env.configured = {1, 2, 3}
  /\ fin.readings[1].v = 100 /\ fin.readings[2].v = 200 /\ fin.readings[3].v = 300
  /\ fin.text = <<200, 0>>

\* C22: start() attempts each configured assistant once, in the order 1 to
\* 5; a start that raises does not stop the later attempts, and start()
\* returns normally.
C22_StartAttemptsAll ==
  fin.op = "start" =>
    /\ fin.result = "returns"
    /\ {fin.starts[k] : k \in 1..Len(fin.starts)} = env.configured
    /\ \A k \in 1..(Len(fin.starts) - 1) : fin.starts[k] < fin.starts[k + 1]

C22_Witness ==
  /\ fin.op = "start" /\ fin.result = "returns"
  /\ fin.starts = <<2, 5>> /\ fin.nraise = 2

\* C23: skip_stream issues one play command, for the link it was given, and
\* leaves the queue, the loop count, the active flags and the autoend map as
\* they were.
C23_SkipOnlyPlays ==
  (fin.op = "skip_stream" /\ fin.alone) =>
    /\ Len(fin.plays) = 1
    /\ fin.plays[1].src = fin.src
    /\ (fin.result = "returns") => engine = fin.src
    /\ Q(db) = fin.q0
    /\ loopv = fin.loop0
    /\ <<active, activeVideo>> = fin.act0
    /\ autoend = fin.ae0

C23_Witness ==
  /\ fin.op = "skip_stream" /\ fin.alone /\ fin.result = "returns"
  /\ fin.src = <<"https://live/", "x">>
  /\ Len(Q(db)) = 2 /\ Q(db)[1].file # fin.src
  /\ active

C25_EmptyQueueTearsDown ==
  (Advanced /\ fin.q0 = <<>>) =>
    /\ fin.result = "returns"
    /\ fin.plays = <<>> /\ fin.notes = <<>>
    /\ Len(fin.leaves) >= 1
    /\ db # NoList /\ Q(db) = <<>>
    /\ ~active /\ ~activeVideo

C25_Witness ==
  /\ Advanced /\ fin.q0 = <<>> /\ fin.loop0 = 0
  /\ fin.act0 = <<FALSE, FALSE>>
  /\ fin.result = "returns" /\ Len(fin.leaves) = 1 /\ fin.nraise = 1
  /\ Q(db) = <<>> /\ ~active

\* C26: when change_stream's play command has succeeded, the announcement
\* handle is stored in the mystic field (and markup is set) of the entry whose
\* source was played, whatever else ran on the chat during the awaits.
PlaySucceeded == fin.op = "change_stream" /\ Len(fin.plays) = 1 /\ fin.nraise = 0

C26_HandleOnPlayedEntry ==
  PlaySucceeded =>
    /\ fin.result = "returns"
    /\ Q(db) # <<>>
    /\ Q(db)[1].file = fin.queued /\ Q(db)[1].vidid = fin.vid
    /\ Q(db)[1].mystic = <<"photo", fin.orig, fin.vid>>
    /\ Q(db)[1].markup = RouteMarkup(fin.route, fin.vid)

\* C27: the output speedup_stream plays for a speed other than 1.0 is a
\* transcode of the file it was asked for, at the speed it was asked for: the
\* cache never serves the transcode of another source file.
C27_CacheServesSameSource ==
  (fin.op = "speedup_stream" /\ fin.speed # "1.0" /\ fin.plays # <<>>) =>
    \E e \in cache :
      /\ e.out = fin.plays[1].src
      /\ e.from = fin.fp
      /\ e.speed = fin.speed

\* C28: once stop_stream or stop_stream_force has completed, a change_stream
\* that was in flight for the chat issues no play command and does not raise
\* when it resumes.
StopCompleted == fin.op \in {"stop_stream", "stop_stream_force"}

ResumesWithPlay(t) ==
  /\ tasks[t].op = "change_stream" /\ tasks[t].pc = "cs_play"
  /\ tasks'[t].pc # "cs_play"

C28_NoPlayAfterStop ==
  [][StopCompleted =>
       /\ \A t \in Tasks : ~ResumesWithPlay(t)
       /\ fin'.op = "change_stream" => fin'.result = "returns"]_vars

\* C29: every change_stream that read a loop count above 0 lowers the stored
\* count by exactly one when it writes it back, in any interleaving: no
\* decrement is lost.
WritesLoop(t) ==
  /\ tasks[t].op = "change_stream" /\ tasks[t].pc = "cs_setloop"
  /\ tasks'[t].pc # "cs_setloop"

C29_NoLostDecrement ==
  [][\A t \in Tasks : WritesLoop(t) => loopv' = loopv - 1]_vars

\* C30: a speedup_stream that has issued its play command and returns
\* normally has recorded it: the head's speed is the requested speed and its
\* speed_path is the file given to the engine, also when the head changed
\* while the play command was awaited.
C30_SpeedRecordedOrRaised ==
  (fin.op = "speedup_stream" /\ fin.plays # <<>> /\ fin.result = "returns") =>
    /\ Q(db) # <<>>
    /\ Q(db)[1].speed = fin.speed
    /\ Q(db)[1].speed_path = fin.plays[1].src

\* C31: the snapshot of a speed change is taken once: an entry's old_dur and
\* old_second are its dur and seconds from before the first speedup_stream,
\* however many followed, and a change_stream that keeps the head (loop > 0)
\* restores those values.
Original(e) == CHOOSE tr \in env.cat : Key(tr) = Key(e)

C31_SnapshotTakenOnce ==
  /\ \A i \in 1..Len(Q(db)) :
       Q(db)[i].old_dur # NoDur
         => /\ Q(db)[i].old_dur = Original(Q(db)[i]).dur
            /\ Q(db)[i].old_second = Original(Q(db)[i]).seconds
  /\ \A t \in Tasks :
       (AboutToPlay(t) /\ tasks[t].loop0 > 0 /\ tasks[t].q0 # <<>>
          /\ tasks[t].q0[1].old_dur # NoDur)
         => /\ Q(db)[1].dur = Original(Q(db)[1]).dur
            /\ Q(db)[1].seconds = Original(Q(db)[1]).seconds

C31_Witness ==
  /\ fin.op = "speedup_stream" /\ fin.result = "returns" /\ fin.alone
  /\ fin.speed = "2.0"
  /\ fin.q0[1].old_dur # NoDur /\ fin.q0[1].speed = "2.0" /\ fin.q0[1].seconds = 2
  /\ Q(db)[1].seconds = 2 /\ Q(db)[1].old_second = 4

\* ======================================================================
\* plugins/bot/inline.py, plugins/play/dw.py, plugins/tools/c.py
\* ======================================================================
\* A text is a sequence of pieces: single characters, and literal words of
\* the source that hold no underscore.
Us == "_"

U(a, b) == a \o <<Us>> \o b

\* str.split('_')
RECURSIVE Split(_)
Split(s) ==
  IF \A i \in 1..Len(s) : s[i] # Us THEN <<s>>
  ELSE LET k == CHOOSE i \in 1..Len(s) :
                  s[i] = Us /\ \A j \in 1..(i - 1) : s[j] # Us
       IN <<SubSeq(s, 1, k - 1)>> \o Split(SubSeq(s, k + 1, Len(s)))

DigitChar == <<"0", "1", "2", "3", "4", "5", "6", "7", "8", "9">>

DigitOf(c) == CHOOSE d \in 0..9 : DigitChar[d + 1] = c

IsDigit(c) == \E d \in 0..9 : DigitChar[d + 1] = c

\* The decimal text of a user id or page number inside an f-string.
RECURSIVE Digits(_)
Digits(n) ==
  IF n < 0 THEN <<"-">> \o Digits(0 - n)
  ELSE IF n < 10 THEN <<DigitChar[n + 1]>>
  ELSE Digits(n \div 10) \o <<DigitChar[(n % 10) + 1]>>

RECURSIVE Value(_)
Value(s) ==
  IF s = <<>> THEN 0 ELSE 10 * Value(SubSeq(s, 1, Len(s) - 1)) + DigitOf(s[Len(s)])

AllDigits(s) == s # <<>> /\ \A i \in 1..Len(s) : IsDigit(s[i])

ValueError == [ok |-> FALSE, val |-> 0]

\* int(text): an optional sign and decimal digits, ValueError otherwise.
ParseInt(s) ==
  IF AllDigits(s) THEN [ok |-> TRUE, val |-> Value(s)]
  ELSE IF s # <<>> /\ s[1] = "-" /\ AllDigits(Tail(s))
  THEN [ok |-> TRUE, val |-> 0 - Value(Tail(s))]
  ELSE IF s # <<>> /\ s[1] = "+" /\ AllDigits(Tail(s))
  THEN [ok |-> TRUE, val |-> Value(Tail(s))]
  ELSE ValueError

StartsWithText(s, pre) == Len(s) >= Len(pre) /\ SubSeq(s, 1, Len(pre)) = pre

\* ----------------------------------------------------------- video ids
\* [0-9A-Za-z_-]{11} of extract_video_id.
IdLen == 11

\* Characters of an id that the model tells apart: a letter, a digit, the
\* dash and the underscore.
IdChars == {"a", "1", "-", "_"}

MaxSpecial == 2

PlainId == [i \in 1..IdLen |-> "a"]

\* The ids with at most n characters that are not the plain letter.
RECURSIVE Vary(_)
Vary(n) ==
  IF n = 0 THEN {PlainId}
  ELSE {[v EXCEPT ![i] = c] : v \in Vary(n - 1), i \in 1..IdLen, c \in IdChars}

\* What extract_video_id can return.
VideoIds == Vary(MaxSpecial)

\* The k-th video of a YouTube search: distinct ids.
ResultId(k) ==
  [PlainId EXCEPT ![((k - 1) \div 3) + 1] =
     IF k % 3 = 1 THEN "1" ELSE IF k % 3 = 2 THEN "-" ELSE "_"]

\* search_youtube(q, n): the first n videos found.
SearchYoutube(n) == [k \in 1..n |-> ResultId(k)]

\* ------------------------------------------------- keyboards of inline.py
Button(text, data) == [text |-> text, data |-> data]

Qualities == <<"720", "480", "360", "240">>

create_buttons(video_id, user_id, from_search) ==
  <<Button("audio", U(<<"audio">>, U(video_id, Digits(user_id))))>>
  \o [q \in 1..4 |->
        Button(Qualities[q],
               U(<<"video">>, U(<<Qualities[q]>>, U(video_id, Digits(user_id)))))]
  \o (IF from_search THEN <<Button("back", U(<<"back">>, Digits(user_id)))>>
      ELSE <<>>)
  \o <<Button("close", U(<<"close">>, Digits(user_id)))>>

per_page == 8

Min(a, b) == IF a < b THEN a ELSE b

\* results[start:end] of Python: clipped to the list, empty when start is
\* past its end.
Slice(results, start, end) ==
  IF start >= Len(results) \/ end <= start THEN <<>>
  ELSE SubSeq(results, IF start < 0 THEN 1 ELSE start + 1, Min(end, Len(results)))

total_pages(results) == (Len(results) + per_page - 1) \div per_page

HasPrevAlways(page) == TRUE

HasPrev(page) == page > 0

HasNext(page, total) == page < total - 1

Nav(page, user_id, total, word) ==
  IF total > 1
  THEN (IF HasPrev(page)
        THEN <<Button("prev", U(word, U(Digits(page - 1), Digits(user_id))))>>
        ELSE <<>>)
       \o <<Button("label", <<"noop">>)>>
       \o (IF HasNext(page, total)
           THEN <<Button("next", U(word, U(Digits(page + 1), Digits(user_id))))>>
           ELSE <<>>)
  ELSE <<>>

create_search_buttons(results, user_id, page) ==
  LET shown == Slice(results, page * per_page, page * per_page + per_page)
  IN [k \in 1..Len(shown) |->
        Button("result", U(<<"sel">>, U(shown[k], Digits(user_id))))]
     \o Nav(page, user_id, total_pages(results), <<"page">>)
     \o <<Button("close", U(<<"close">>, Digits(user_id)))>>

\* ------------------------------------------------ state of inline.py
NoPath == <<>>
NoText == <<>>

\* What the keyboard on the user's message was built from.
NoShown == [kind |-> "none", video |-> NoText, user |-> 0, results |-> <<>>, page |-> 0]

ShownVideo(id, user) == [NoShown EXCEPT !.kind = "video", !.video = id, !.user = user]

ShownResults(results, user, page) ==
  [NoShown EXCEPT !.kind = "results", !.results = results, !.user = user,
                  !.page = page]

\* One handler invocation (a callback query being served).
NoCall ==
  [op |-> "idle", pc |-> "idle", data |-> NoText, from_user |-> 0, btn |-> 0,
   fmt |-> NoText, quality |-> NoText, video_id |-> NoText, user_id |-> 0,
   is_video |-> FALSE, answer |-> "", effects |-> {}, file_key |-> NoText,
   file_path |-> NoPath, attempt |-> 0, requests |-> 0, returned |-> FALSE,
   size |-> 0, mapped |-> FALSE, present |-> TRUE, shown |-> NoShown,
   raised |-> FALSE]

MaxPresses == 3

\* Inline queries answered in one behaviour.
MaxQueries == 1

\* Presses that reach every button of a search: Back, then a result or a page.
SearchPresses == 2

\* cache[key] of inline.py: a video entry or a user's search.
VideoEntry(type) == [type |-> type, results |-> <<>>, page |-> 0]

SearchEntry(results, page) == [type |-> "results", results |-> results, page |-> page]

Put(f, k, v) == [x \in DOMAIN f \cup {k} |-> IF x = k THEN v ELSE f[x]]

Drop(f, k) == [x \in DOMAIN f \ {k} |-> f[x]]

VideoKey(video_id, user_id) == U(video_id, Digits(user_id))

SearchKey(user_id) == U(<<"search">>, Digits(user_id))

InlineStart(scenarios) ==
  \E scn \in scenarios :
    inline = [on |-> TRUE, scn |-> scn, cache |-> <<>>, download_cache |-> <<>>,
              disk |-> <<>>, markup |-> <<>>, shown |-> NoShown,
              calls |-> [t \in Tasks |-> NoCall], last |-> NoCall, presses |-> 0,
              queries |-> 0]

\* The call manager at rest while the plugins are exercised.
CoreIdle ==
  Start({[slots |-> {1}, cat |-> {TrFile}, autoendOn |-> FALSE, configured |-> {1},
          users |-> {1}, loop |-> 0, clean |-> {"removed"}, store |-> {TRUE}]})

InlineStep(new) ==
  /\ inline' = new
  /\ UNCHANGED <<db, heap, active, activeVideo, musicOn, loopv, engine, cache,
                 autoend, counter, tasks, fin, env, dw, chatbot>>

\* A served press counts against the scenario's number of presses.
PressStep(new) == InlineStep([new EXCEPT !.presses = @ + 1])

\* inline_handler, a YouTube URL: the video is cached for the user and the
\* inline result carries its format buttons.
InlineUrl(user, id) ==
  /\ inline.on /\ inline.queries < MaxQueries
  /\ user \in inline.scn.askers /\ id \in inline.scn.videos
  /\ InlineStep([inline EXCEPT
       !.cache = Put(@, VideoKey(id, user), VideoEntry("direct")),
       !.markup = create_buttons(id, user, FALSE),
       !.shown = ShownVideo(id, user),
       !.queries = @ + 1,
       !.last = NoCall])

RECURSIVE PutAll(_, _, _)
PutAll(f, results, user) ==
  IF results = <<>> THEN f
  ELSE PutAll(Put(f, VideoKey(Head(results), user), VideoEntry("search")),
              Tail(results), user)

\* inline_handler, a search: the search and each of its videos are cached;
\* the user sends one of the first ten results, which carries the format
\* buttons and the Back button.
InlineSearch(user, k) ==
  LET results == SearchYoutube(inline.scn.found)
  IN /\ inline.on /\ inline.queries < MaxQueries
     /\ user \in inline.scn.askers
     /\ results # <<>>
     /\ k \in 1..Min(10, Len(results))
     /\ InlineStep([inline EXCEPT
          !.cache = PutAll(Put(@, SearchKey(user), SearchEntry(results, 0)),
                           results, user),
          !.markup = create_buttons(results[k], user, TRUE),
          !.shown = ShownVideo(results[k], user),
          !.queries = @ + 1,
          !.last = NoCall])

\* A user presses button i of the message; the handler whose regex matches
\* the callback data serves it in slot t.
Pressed(t, i, from_user, word) ==
  /\ inline.on
  /\ t \in inline.scn.slots
  /\ inline.calls[t].op = "idle"
  /\ \A u \in inline.scn.slots : u < t => inline.calls[u].op # "idle"
  /\ inline.presses < inline.scn.presses
  /\ from_user \in inline.scn.users
  /\ i \in 1..Len(inline.markup)
  /\ StartsWithText(inline.markup[i].data, <<word, Us>>)

Call(op, i, from_user) ==
  [NoCall EXCEPT !.op = op, !.data = inline.markup[i].data, !.btn = i,
                 !.from_user = from_user, !.shown = inline.shown]

\* The handler in slot t ends with record c.
Ended(t, c) ==
  [inline EXCEPT !.calls[t] = NoCall, !.last = [c EXCEPT !.pc = "done"]]

Refusal == "Not yours!"

\* select_video
select_video(t, i, from_user) ==
  LET c == Call("select_video", i, from_user)
      parts == Split(c.data)
      uid == ParseInt(parts[3])
      key == VideoKey(parts[2], uid.val)
      p == [c EXCEPT !.video_id = parts[2], !.user_id = uid.val]
  IN /\ Pressed(t, i, from_user, "sel")
     /\ IF Len(parts) # 3 \/ ~uid.ok
        THEN PressStep(Ended(t, [c EXCEPT !.answer = "Error occurred!"]))
        ELSE IF from_user # uid.val
        THEN PressStep(Ended(t, [p EXCEPT !.answer = Refusal]))
        ELSE IF key \notin DOMAIN inline.cache
        THEN PressStep(Ended(t, [p EXCEPT !.answer = "Expired! Search again."]))
        ELSE PressStep([Ended(t, [p EXCEPT !.effects = {"edit"}]) EXCEPT
               !.markup = create_buttons(parts[2], uid.val, TRUE),
               !.shown = ShownVideo(parts[2], uid.val)])

\* back_to_search
back_to_search(t, i, from_user) ==
  LET c == Call("back_to_search", i, from_user)
      parts == Split(c.data)
      uid == ParseInt(parts[2])
      key == SearchKey(uid.val)
      p == [c EXCEPT !.user_id = uid.val]
  IN /\ Pressed(t, i, from_user, "back")
     /\ IF ~uid.ok
        THEN PressStep(Ended(t, [c EXCEPT !.answer = "Error occurred!"]))
        ELSE IF from_user # uid.val
        THEN PressStep(Ended(t, [p EXCEPT !.answer = Refusal]))
        ELSE IF key \notin DOMAIN inline.cache
        THEN PressStep(Ended(t, [p EXCEPT !.answer = "Search expired!"]))
        ELSE PressStep([Ended(t, [p EXCEPT !.effects = {"edit"}]) EXCEPT
               !.markup = create_search_buttons(inline.cache[key].results, uid.val,
                                                inline.cache[key].page),
               !.shown = ShownResults(inline.cache[key].results, uid.val,
                                       inline.cache[key].page)])

\* page_handler
page_handler(t, i, from_user) ==
  LET c == Call("page_handler", i, from_user)
      parts == Split(c.data)
      page == ParseInt(parts[2])
      uid == ParseInt(parts[3])
      key == SearchKey(uid.val)
      p == [c EXCEPT !.user_id = uid.val]
  IN /\ Pressed(t, i, from_user, "page")
     /\ IF Len(parts) # 3 \/ ~page.ok \/ ~uid.ok
        THEN PressStep(Ended(t, [c EXCEPT !.answer = "Error occurred!"]))
        ELSE IF from_user # uid.val
        THEN PressStep(Ended(t, [p EXCEPT !.answer = Refusal]))
        ELSE IF key \notin DOMAIN inline.cache
        THEN PressStep(Ended(t, [p EXCEPT !.answer = "Search expired!"]))
        ELSE PressStep([Ended(t, [p EXCEPT !.effects = {"cache", "edit"},
                                            !.answer = "Page"]) EXCEPT
               !.cache[key].page = page.val,
               !.markup = create_search_buttons(inline.cache[key].results, uid.val,
                                                page.val),
               !.shown = ShownResults(inline.cache[key].results, uid.val, page.val)])

\* close_handler
close_handler(t, i, from_user) ==
  LET c == Call("close_handler", i, from_user)
      parts == Split(c.data)
      uid == ParseInt(parts[2])
      p == [c EXCEPT !.user_id = uid.val]
  IN /\ Pressed(t, i, from_user, "close")
     /\ IF ~uid.ok
        THEN PressStep(Ended(t, [c EXCEPT !.answer = "ok"]))
        ELSE IF from_user # uid.val
        THEN PressStep(Ended(t, [p EXCEPT !.answer = Refusal]))
        ELSE PressStep([Ended(t, [p EXCEPT !.effects = {"delete"},
                                            !.answer = "Closed"]) EXCEPT
               !.markup = <<>>, !.shown = NoShown])

\* ------------------------------------------------------ download_handler
\* callback.data.split('_'): three parts are an audio request, four a video
\* request.
Parse(c) ==
  LET parts == Split(c.data)
  IN IF Len(parts) = 3
     THEN [c EXCEPT !.fmt = parts[1], !.video_id = parts[2],
                    !.user_id = ParseInt(parts[3]).val, !.is_video = FALSE,
                    !.quality = <<"320kbps">>]
     ELSE [c EXCEPT !.fmt = parts[1], !.quality = parts[2], !.video_id = parts[3],
                    !.user_id = ParseInt(parts[4]).val, !.is_video = TRUE]

Ext(is_video) == IF is_video THEN "mp4" ELSE "mp3"

\* quality if is_video else None, then quality_str of download_from_api.
QualityStr(c) == IF c.is_video /\ c.quality # NoText THEN c.quality ELSE <<"audio">>

FileKey(c) == U(c.video_id, QualityStr(c))

FilePath(c) == <<"downloads/">> \o FileKey(c) \o <<".", Ext(c.is_video)>>

\* The handler in slot t goes on with record c.
Going(t, c) == [inline EXCEPT !.calls[t] = c, !.last = NoCall]

\* download_from_api returns path to the handler in slot t, which runs on to
\* its next await: no path ends it with the failure message, a path has its
\* size read before the upload is announced.
Returned(t, c, path, cachemap, files) ==
  IF path = NoPath
  THEN [Ended(t, [c EXCEPT !.effects = @ \cup {"edit"}]) EXCEPT
          !.download_cache = cachemap, !.disk = files]
  ELSE [Going(t, [c EXCEPT !.pc = "send", !.file_path = path, !.returned = TRUE,
                           !.size = files[path],
                           !.mapped = (FileKey(c) \in DOMAIN cachemap
                                       /\ cachemap[FileKey(c)] = path)])
        EXCEPT !.download_cache = cachemap, !.disk = files]

\* download_handler up to its first await.
DhStart(t, i, from_user) ==
  LET c == Call("download_handler", i, from_user)
      parts == Split(c.data)
      p == Parse(c)
      key == VideoKey(p.video_id, p.user_id)
  IN /\ \/ Pressed(t, i, from_user, "audio")
        \/ Pressed(t, i, from_user, "video")
     /\ IF Len(parts) \notin {3, 4}
        THEN PressStep(Ended(t, [c EXCEPT !.answer = "Invalid request!"]))
        ELSE IF ~ParseInt(parts[Len(parts)]).ok
        THEN PressStep(Ended(t, [c EXCEPT !.answer = "Error occurred!"]))
        ELSE IF from_user # p.user_id
        THEN PressStep(Ended(t, [p EXCEPT !.answer = Refusal]))
        ELSE IF key \notin DOMAIN inline.cache
        THEN PressStep(Ended(t, [p EXCEPT !.answer = "Expired! Search again."]))
        ELSE PressStep(Going(t, [p EXCEPT !.pc = "download",
                                          !.answer = "Downloading",
                                          !.effects = {"edit"},
                                          !.file_key = FileKey(p)]))

\* download_from_api up to its first request: a cached path whose file
\* exists is returned at once.
DfaEnter(t) ==
  LET c == inline.calls[t]
      hit == /\ c.file_key \in DOMAIN inline.download_cache
             /\ inline.download_cache[c.file_key] \in DOMAIN inline.disk
  IN /\ inline.on /\ c.pc = "download"
     /\ IF hit
        THEN InlineStep(Returned(t, c, inline.download_cache[c.file_key],
                                 inline.download_cache, inline.disk))
        ELSE InlineStep(Going(t, [c EXCEPT !.pc = "request"]))

MaxAttempts == 3

\* After a failed attempt: the next one, until range(3) is used up.
Retry(t, c, files) ==
  IF c.attempt + 1 < MaxAttempts
  THEN [Going(t, [c EXCEPT !.pc = "request", !.attempt = @ + 1]) EXCEPT !.disk = files]
  ELSE Returned(t, [c EXCEPT !.attempt = @ + 1], NoPath, inline.download_cache, files)

ApiAnswers == {"non200", "error", "processing", "other", "nolink", "done"}

\* One session.get(url) of the loop and the branch its answer takes.
DfaRequest(t, answer) ==
  LET c == [inline.calls[t] EXCEPT !.requests = @ + 1]
  IN /\ inline.on /\ inline.calls[t].pc = "request"
     /\ answer \in inline.scn.api
     /\ IF answer = "nolink"
        THEN InlineStep(Returned(t, c, NoPath, inline.download_cache, inline.disk))
        ELSE IF answer = "done"
        THEN InlineStep(Going(t, [c EXCEPT !.pc = "fetch"]))
        ELSE InlineStep(Retry(t, c, inline.disk))

FetchAnswers == {"not200", "ok", "empty", "broken"}

\* session.get(dl_url): a 200 answer opens the file for writing.
DfaFetch(t, answer) ==
  LET c == inline.calls[t]
      opened == Put(inline.disk, FilePath(c), 0)
  IN /\ inline.on /\ c.pc = "fetch"
     /\ answer \in inline.scn.fetch
     /\ IF answer = "not200"
        THEN InlineStep(Retry(t, c, inline.disk))
        ELSE IF answer = "ok"
        THEN InlineStep([Going(t, [c EXCEPT !.pc = "write"]) EXCEPT !.disk = opened])
        ELSE InlineStep(Retry(t, c, opened))

\* The chunks are written and the file is closed; it is returned when it is
\* on disk and not empty.
DfaWrite(t) ==
  LET c == inline.calls[t]
      path == FilePath(c)
      files == IF path \in DOMAIN inline.disk THEN Put(inline.disk, path, 1)
               ELSE inline.disk
  IN /\ inline.on /\ c.pc = "write"
     /\ IF path \in DOMAIN files /\ files[path] > 0
        THEN InlineStep(Returned(t, c, path, Put(inline.download_cache, c.file_key, path),
                                 files))
        ELSE InlineStep(Retry(t, c, files))

\* send_video / send_audio of the path: a missing file raises, which is
\* reported on the message.
DhSend(t) ==
  LET c == inline.calls[t]
      there == c.file_path \in DOMAIN inline.disk
  IN /\ inline.on /\ c.pc = "send"
     /\ InlineStep(Going(t, [c EXCEPT !.pc = "cleanup", !.present = there,
                                      !.effects = IF there THEN @ \cup {"upload"}
                                                  ELSE @]))

\* os.remove(file_path), errors ignored.
DhRemove(t) ==
  LET c == inline.calls[t]
  IN /\ inline.on /\ c.pc = "cleanup"
     /\ InlineStep([Ended(t, c) EXCEPT !.disk = Drop(@, c.file_path)])

\* ------------------------------------------------------- state of dw.py
\* video_info['formats'] of the videos: the qualities on offer.
Formats == [video |-> <<"720p", "480p">>, audio |-> <<"320kbps">>]

create_quality_keyboard(video_id, user_id, formats, back) ==
  (IF formats.video # <<>> THEN <<Button("header", <<"header">>)>> ELSE <<>>)
  \o [q \in 1..Len(formats.video) |->
        Button(formats.video[q],
               U(<<"dl">>, U(<<"video">>, U(<<formats.video[q]>>,
                 U(video_id, Digits(user_id))))))]
  \o (IF formats.audio # <<>> THEN <<Button("header", <<"header">>)>> ELSE <<>>)
  \o [q \in 1..Len(formats.audio) |->
        Button(formats.audio[q],
               U(<<"dl">>, U(<<"audio">>, U(<<formats.audio[q]>>,
                 U(video_id, Digits(user_id))))))]
  \o (IF back
      THEN <<Button("back", U(<<"back">>, U(<<"search">>, Digits(user_id))))>>
      ELSE <<>>)
  \o <<Button("close", U(<<"close">>, Digits(user_id)))>>

create_search_results_keyboard(results, user_id, page) ==
  LET shown == Slice(results, page * per_page, page * per_page + per_page)
      total == (Len(results) + per_page - 1) \div per_page
      nav == IF total > 1
             THEN (IF HasPrev(page)
                   THEN <<Button("prev", U(<<"search">>, U(<<"page">>,
                            U(Digits(page - 1), Digits(user_id)))))>>
                   ELSE <<>>)
                  \o <<Button("label", <<"header">>)>>
                  \o (IF HasNext(page, total)
                      THEN <<Button("next", U(<<"search">>, U(<<"page">>,
                               U(Digits(page + 1), Digits(user_id)))))>>
                      ELSE <<>>)
             ELSE <<>>
  IN [k \in 1..Len(shown) |->
        Button("result", U(<<"select">>, U(<<"video">>,
                           U(shown[k], Digits(user_id)))))]
     \o nav
     \o <<Button("close", U(<<"close">>, Digits(user_id)))>>

\* search_cache[key]: the results and how many sweeps the entry has seen.
Search(results, user) == [results |-> results, user_id |-> user, sweeps |-> 0]

\* The key of an inline search: the user and the id of the inline query.
InlineSearchKey(user, qid) == U(<<"search">>, U(Digits(user), Digits(qid)))

DwStart(scenarios) ==
  \E scn \in scenarios :
    dw = [on |-> TRUE, scn |-> scn, search_cache |-> <<>>, download_cache |-> {},
          markup |-> <<>>, shown |-> NoShown, last |-> NoCall, presses |-> 0,
          queries |-> 0, swept |-> 0, origin |-> NoText, via |-> "none"]

DwStep(new) ==
  /\ dw' = new
  /\ UNCHANGED <<db, heap, active, activeVideo, musicOn, loopv, engine, cache,
                 autoend, counter, tasks, fin, env, inline, chatbot>>

Asked(user) ==
  /\ dw.on /\ dw.queries < MaxQueries
  /\ user \in dw.scn.askers

\* The results whose videos get a download_cache entry.
Stored(results) == SubSeq(results, 1, Min(10, Len(results)))

CacheKeys(results, user) == {VideoKey(results[k], user) : k \in 1..Len(results)}

\* inline_youtube_handler, a YouTube URL.
DwInlineUrl(user, id) ==
  /\ Asked(user) /\ id \in dw.scn.videos
  /\ DwStep([dw EXCEPT
       !.download_cache = @ \cup {VideoKey(id, user)},
       !.markup = create_quality_keyboard(id, user, Formats, FALSE),
       !.shown = ShownVideo(id, user),
       !.queries = @ + 1, !.last = NoCall])

\* inline_youtube_handler, a search (max_results=15): the user sends one of
\* the first ten results.
DwInlineSearch(user, qid, k) ==
  LET results == SearchYoutube(dw.scn.found)
      key == InlineSearchKey(user, qid)
  IN /\ Asked(user)
     /\ results # <<>>
     /\ k \in 1..Min(10, Len(results))
     /\ DwStep([dw EXCEPT
          !.search_cache = Put(@, key, Search(results, user)),
          !.download_cache = @ \cup CacheKeys(Stored(results), user),
          !.markup = create_quality_keyboard(results[k], user, Formats, TRUE),
          !.shown = ShownVideo(results[k], user),
          !.origin = key, !.via = "inline",
          !.queries = @ + 1, !.last = NoCall])

\* download_command and search_command with a video name.
search_command(user) ==
  LET results == SearchYoutube(dw.scn.found)
      key == SearchKey(user)
  IN /\ Asked(user)
     /\ results # <<>>
     /\ DwStep([dw EXCEPT
          !.search_cache = Put(@, key, Search(results, user)),
          !.download_cache = @ \cup CacheKeys(results, user),
          !.markup = create_search_results_keyboard(results, user, 0),
          !.shown = ShownResults(results, user, 0),
          !.origin = key, !.via = "command",
          !.queries = @ + 1, !.last = NoCall])

DwPressed(i, from_user, pre) ==
  /\ dw.on
  /\ dw.presses < dw.scn.presses
  /\ from_user \in dw.scn.users
  /\ i \in 1..Len(dw.markup)
  /\ StartsWithText(dw.markup[i].data, pre)

DwCall(op, i, from_user) ==
  [NoCall EXCEPT !.op = op, !.data = dw.markup[i].data, !.btn = i,
                 !.from_user = from_user, !.shown = dw.shown]

DwEnded(c) == [dw EXCEPT !.last = [c EXCEPT !.pc = "done"], !.presses = @ + 1]

DwRefusal == "This is not for you!"

\* An exception the handler does not catch: no answer is sent.
Raised(c) == [c EXCEPT !.raised = TRUE]

\* select_video_callback
select_video_callback(i, from_user) ==
  LET c == DwCall("select_video_callback", i, from_user)
      data == Split(c.data)
      uid == ParseInt(data[4])
      key == VideoKey(data[3], uid.val)
      p == [c EXCEPT !.video_id = data[3], !.user_id = uid.val]
  IN /\ DwPressed(i, from_user, <<"select", Us, "video", Us>>)
     /\ IF ~uid.ok
        THEN DwStep(DwEnded(Raised(c)))
        ELSE IF from_user # uid.val
        THEN DwStep(DwEnded([p EXCEPT !.answer = DwRefusal]))
        ELSE IF key \notin dw.download_cache
        THEN DwStep(DwEnded([p EXCEPT !.answer = "Session expired!"]))
        ELSE DwStep([DwEnded([p EXCEPT !.effects = {"delete", "reply"}]) EXCEPT
               !.markup = create_quality_keyboard(data[3], uid.val, Formats, TRUE),
               !.shown = ShownVideo(data[3], uid.val)])

\* back_to_search_callback
back_to_search_callback(i, from_user) ==
  LET c == DwCall("back_to_search_callback", i, from_user)
      data == Split(c.data)
      uid == ParseInt(data[3])
      key == SearchKey(uid.val)
      p == [c EXCEPT !.user_id = uid.val]
  IN /\ DwPressed(i, from_user, <<"back", Us, "search", Us>>)
     /\ IF ~uid.ok
        THEN DwStep(DwEnded(Raised(c)))
        ELSE IF from_user # uid.val
        THEN DwStep(DwEnded([p EXCEPT !.answer = DwRefusal]))
        ELSE IF key \notin DOMAIN dw.search_cache
        THEN DwStep(DwEnded([p EXCEPT !.answer = "Search session expired!"]))
        ELSE DwStep([DwEnded([p EXCEPT !.effects = {"delete", "reply"},
                                       !.file_key = key]) EXCEPT
               !.markup = create_search_results_keyboard(
                            dw.search_cache[key].results, uid.val, 0),
               !.shown = ShownResults(dw.search_cache[key].results, uid.val, 0)])

\* search_page_callback
search_page_callback(i, from_user) ==
  LET c == DwCall("search_page_callback", i, from_user)
      data == Split(c.data)
      page == ParseInt(data[3])
      uid == ParseInt(data[4])
      key == SearchKey(uid.val)
      p == [c EXCEPT !.user_id = uid.val]
  IN /\ DwPressed(i, from_user, <<"search", Us, "page", Us>>)
     /\ IF ~page.ok \/ ~uid.ok
        THEN DwStep(DwEnded(Raised(c)))
        ELSE IF from_user # uid.val
        THEN DwStep(DwEnded([p EXCEPT !.answer = DwRefusal]))
        ELSE IF key \notin DOMAIN dw.search_cache
        THEN DwStep(DwEnded([p EXCEPT !.answer = "Search session expired!"]))
        ELSE DwStep([DwEnded([p EXCEPT !.effects = {"edit"}, !.answer = "Page",
                                       !.file_key = key]) EXCEPT
               !.markup = create_search_results_keyboard(
                            dw.search_cache[key].results, uid.val, page.val),
               !.shown = ShownResults(dw.search_cache[key].results, uid.val,
                                      page.val)])

\* download_callback: the checks, then the download and the upload of the
\* media (which either succeed or are reported on the status message).
download_callback(i, from_user, sent) ==
  LET c == DwCall("download_callback", i, from_user)
      data == Split(c.data)
      uid == ParseInt(data[5])
      key == VideoKey(data[4], uid.val)
      p == [c EXCEPT !.fmt = data[2], !.quality = data[3], !.video_id = data[4],
                     !.user_id = uid.val, !.is_video = (data[2] = <<"video">>)]
  IN /\ DwPressed(i, from_user, <<"dl", Us>>)
     /\ IF Len(data) < 5
        THEN DwStep(DwEnded([c EXCEPT !.answer = "Invalid data!"]))
        ELSE IF ~uid.ok
        THEN DwStep(DwEnded(Raised(c)))
        ELSE IF from_user # uid.val
        THEN DwStep(DwEnded([p EXCEPT !.answer = DwRefusal]))
        ELSE IF key \notin dw.download_cache
        THEN DwStep(DwEnded([p EXCEPT !.answer = "Session expired!"]))
        ELSE DwStep(DwEnded([p EXCEPT !.answer = "Preparing",
               !.effects = IF sent THEN {"edit", "download", "upload"}
                           ELSE {"edit", "download"}]))

\* close_callback
close_callback(i, from_user) ==
  LET c == DwCall("close_callback", i, from_user)
      data == Split(c.data)
      uid == ParseInt(data[2])
      p == [c EXCEPT !.user_id = uid.val]
  IN /\ DwPressed(i, from_user, <<"close", Us>>)
     /\ IF ~uid.ok
        THEN DwStep(DwEnded(Raised(c)))
        ELSE IF from_user # uid.val
        THEN DwStep(DwEnded([p EXCEPT !.answer = DwRefusal]))
        ELSE DwStep([DwEnded([p EXCEPT !.effects = {"delete"},
                                       !.answer = "Closed!"]) EXCEPT
               !.markup = <<>>, !.shown = NoShown])

MaxSweeps == 3

\* An entry older than one hour at a sweep: the sweeps are thirty minutes
\* apart, so it has seen two of them already.
Expired(e) == e.sweeps >= 2

\* One round of cleanup_cache.
cleanup_cache ==
  LET kept == {k \in DOMAIN dw.search_cache : ~Expired(dw.search_cache[k])}
  IN /\ dw.on /\ dw.swept < MaxSweeps
     /\ DwStep([dw EXCEPT
          !.download_cache = {},
          !.search_cache = [k \in kept |-> [dw.search_cache[k] EXCEPT !.sweeps = @ + 1]],
          !.swept = @ + 1, !.last = NoCall])

\* ------------------------------------------------------ specifications
InlineUsers == {7, 12}

\* Every id as a pasted URL with one press, and a search of two pages.
CallbackScenarios ==
  { [videos |-> VideoIds, found |-> 0, askers |-> {7}, users |-> InlineUsers,
     slots |-> {1}, api |-> {"done"}, fetch |-> {"ok"}, presses |-> 1],
    [videos |-> {}, found |-> per_page + 1, askers |-> {7}, users |-> InlineUsers,
     slots |-> {1}, api |-> {"done"}, fetch |-> {"ok"}, presses |-> SearchPresses] }

InitCallback == CoreIdle /\ InlineStart(CallbackScenarios) /\ dw = [on |-> FALSE]
                /\ chatbot = [on |-> FALSE]

\* The URLs a user of the scenario can paste.
Pasted(m) == IF m.on THEN m.scn.videos ELSE {}

QueryOps ==
  \/ \E user \in InlineUsers : \E id \in Pasted(inline) : InlineUrl(user, id)
  \/ \E user \in InlineUsers : \E k \in 1..10 : InlineSearch(user, k)

ButtonOps ==
  \E t \in Tasks : \E i \in 1..(per_page + 3) : \E from_user \in InlineUsers :
    \/ select_video(t, i, from_user)
    \/ back_to_search(t, i, from_user)
    \/ page_handler(t, i, from_user)
    \/ close_handler(t, i, from_user)
    \/ DhStart(t, i, from_user)

DownloadOps ==
  \E t \in Tasks :
    \/ DfaEnter(t)
    \/ \E answer \in ApiAnswers : DfaRequest(t, answer)
    \/ \E answer \in FetchAnswers : DfaFetch(t, answer)
    \/ DfaWrite(t)
    \/ DhSend(t)
    \/ DhRemove(t)

NextInline == QueryOps \/ ButtonOps \/ DownloadOps

\* The callback handlers of inline.py, one at a time.
SpecCallback == InitCallback /\ [][NextInline]_vars

\* An id whose tail after the underscore reads as a user id (12).
DigitTailId == [PlainId EXCEPT ![IdLen - 2] = Us, ![IdLen - 1] = "1", ![IdLen] = "2"]

DwScenarios ==
  { [videos |-> {PlainId, ResultId(3), DigitTailId}, found |-> 11, askers |-> {7},
     users |-> InlineUsers, presses |-> SearchPresses] }

InitDw == CoreIdle /\ DwStart(DwScenarios) /\ inline = [on |-> FALSE]
          /\ chatbot = [on |-> FALSE]

InlineQueryIds == {41}

DwQueryOps ==
  \/ \E user \in InlineUsers : \E id \in Pasted(dw) : DwInlineUrl(user, id)
  \/ \E user \in InlineUsers : \E qid \in InlineQueryIds : \E k \in 1..10 :
       DwInlineSearch(user, qid, k)
  \/ \E user \in InlineUsers : search_command(user)

DwButtonOps ==
  \E i \in 1..(per_page + 3) : \E from_user \in InlineUsers :
    \/ select_video_callback(i, from_user)
    \/ back_to_search_callback(i, from_user)
    \/ search_page_callback(i, from_user)
    \/ \E sent \in BOOLEAN : download_callback(i, from_user, sent)
    \/ close_callback(i, from_user)

NextDw == DwQueryOps \/ DwButtonOps \/ cleanup_cache

\* The handlers of dw.py and the periodic sweep.
SpecDw == InitDw /\ [][NextDw]_vars

\* Two download requests at a time for one pasted video, every answer of
\* the download API and of the file server.
DownloadScenarios ==
  { [videos |-> {PlainId}, found |-> 0, askers |-> {7}, users |-> {7},
     slots |-> Tasks, api |-> ApiAnswers, fetch |-> FetchAnswers,
     presses |-> MaxPresses] }

InitDownload == CoreIdle /\ InlineStart(DownloadScenarios) /\ dw = [on |-> FALSE]
                /\ chatbot = [on |-> FALSE]

PasteOps == \E user \in InlineUsers : \E id \in Pasted(inline) : InlineUrl(user, id)

RequestOps ==
  \E t \in Tasks : \E i \in 1..(per_page + 3) : \E from_user \in InlineUsers :
    DhStart(t, i, from_user)

NextDownload == PasteOps \/ RequestOps \/ DownloadOps

SpecDownload == InitDownload /\ [][NextDownload]_vars

\* -------------------------------------------------------- state of c.py
MAX_HISTORY == 50

\* Messages of one user handled in one behaviour.
MaxMessages == 55

\* A user who sends only text (each message is answered by the AI and the
\* answer is stored) or only stickers (answered without a stored response).
ChatScenarios == {[kind |-> "text"], [kind |-> "sticker"]}

ChatStart(scenarios) ==
  \E scn \in scenarios :
    chatbot = [on |-> TRUE, scn |-> scn, conversation_history |-> <<>>,
               message_count |-> 0, pending |-> FALSE]

ChatStep(new) ==
  /\ chatbot' = new
  /\ UNCHANGED <<db, heap, active, activeVideo, musicOn, loopv, engine, cache,
                 autoend, counter, tasks, fin, env, inline, dw>>

\* The trimming of update_user: one entry goes when the history is longer
\* than MAX_HISTORY.
Trimmed(h) == IF Len(h) > MAX_HISTORY THEN Tail(h) ELSE h

\* UserDatabase.update_user, called by handle_message for every message.
update_user ==
  /\ chatbot.on /\ ~chatbot.pending
  /\ chatbot.message_count < MaxMessages
  /\ ChatStep([chatbot EXCEPT
       !.message_count = @ + 1,
       !.conversation_history = Append(Trimmed(@), "user"),
       !.pending = (chatbot.scn.kind = "text")])

\* UserDatabase.add_bot_response, called by _handle_text_message.
add_bot_response ==
  /\ chatbot.on /\ chatbot.pending
  /\ ChatStep([chatbot EXCEPT
       !.conversation_history = Append(@, "bot"),
       !.pending = FALSE])

InitChat == CoreIdle /\ ChatStart(ChatScenarios) /\ inline = [on |-> FALSE]
            /\ dw = [on |-> FALSE]

NextChat == update_user \/ add_bot_response

SpecChat == InitChat /\ [][NextChat]_vars

\* A search of every length up to the most that inline.py asks for (20;
\* dw.py asks for 15), paged through by its user.
MaxResults == 20

PageScenarios ==
  { [videos |-> {}, found |-> n, askers |-> {7}, users |-> {7}, slots |-> {1},
     api |-> {}, fetch |-> {}, presses |-> MaxPresses] : n \in 0..MaxResults }

DwPageScenarios ==
  { [videos |-> {}, found |-> n, askers |-> {7}, users |-> {7},
     presses |-> MaxPresses] : n \in 0..MaxResults }

InitPages ==
  /\ CoreIdle /\ chatbot = [on |-> FALSE]
  /\ \/ InlineStart(PageScenarios) /\ dw = [on |-> FALSE]
     \/ DwStart(DwPageScenarios) /\ inline = [on |-> FALSE]

SearchOps ==
  \/ \E user \in InlineUsers : \E k \in 1..10 : InlineSearch(user, k)
  \/ \E user \in InlineUsers : search_command(user)

PageOps ==
  \E i \in 1..(per_page + 3) : \E from_user \in InlineUsers :
    \/ \E t \in Tasks : back_to_search(t, i, from_user)
    \/ \E t \in Tasks : page_handler(t, i, from_user)
    \/ search_page_callback(i, from_user)

NextPages == SearchOps \/ PageOps

\* Paging through search results in inline.py and in dw.py.
SpecPages == InitPages /\ [][NextPages]_vars

\* The callback handlers of both modules: a behaviour exercises one module.
InitHandlers ==
  /\ CoreIdle /\ chatbot = [on |-> FALSE]
  /\ \/ InlineStart(CallbackScenarios) /\ dw = [on |-> FALSE]
     \/ DwStart(DwScenarios) /\ inline = [on |-> FALSE]

SpecHandlers == InitHandlers /\ [][NextInline \/ NextDw]_vars

\* ------------------------------------------------------------ claims
\* The invocations of inline.py in flight or just ended.
InlineCalls ==
  IF inline.on THEN {inline.calls[t] : t \in Tasks} \cup {inline.last} ELSE {}

\* The invocation of dw.py that just ended.
DwCalls == IF dw.on THEN {dw.last} ELSE {}

\* What the pressed button was built for.
Built(c) ==
  IF c.shown.kind = "results"
  THEN [kind |-> "sel", quality |-> NoText,
        video_id |-> Slice(c.shown.results, c.shown.page * per_page,
                           c.shown.page * per_page + per_page)[c.btn],
        user_id |-> c.shown.user]
  ELSE IF c.btn = 1
  THEN [kind |-> "audio", quality |-> NoText, video_id |-> c.shown.video,
        user_id |-> c.shown.user]
  ELSE [kind |-> "video", quality |-> <<Qualities[c.btn - 1]>>,
        video_id |-> c.shown.video, user_id |-> c.shown.user]

\* What the handler read out of the callback data.
Parsed(c) ==
  [kind |-> IF c.op = "select_video" THEN "sel"
            ELSE IF c.is_video THEN "video" ELSE "audio",
   quality |-> IF c.is_video THEN c.quality ELSE NoText,
   video_id |-> c.video_id, user_id |-> c.user_id]

\* C32: the data of an audio, video or result button is parsed by
\* download_handler / select_video back to the kind, quality, video id and
\* user id the button was built for, for every id extract_video_id returns.
C32_CallbackRoundTrip ==
  inline.on =>
    \A c \in InlineCalls :
      c.op \in {"download_handler", "select_video"} => Parsed(c) = Built(c)

\* The same for the ids without an underscore.
C32_RoundTripPlain ==
  inline.on =>
    \A c \in InlineCalls :
      /\ c.op \in {"download_handler", "select_video"}
      /\ Us \notin {Built(c).video_id[i] : i \in 1..IdLen}
      => Parsed(c) = Built(c)

\* A press by somebody else than the user the keyboard was built for.
Foreign(c) == c.op # "idle" /\ c.from_user # c.shown.user

\* The handler did nothing but answer.
NoEffect(c) ==
  /\ c.pc = "done" /\ c.effects = {}
  /\ c.requests = 0 /\ ~c.returned

\* C33: a handler pressed by another user than the one embedded in the
\* callback data answers with the refusal and does nothing else.
C33_OnlyForThatUser ==
  \A c \in InlineCalls \cup DwCalls :
    Foreign(c) => c.answer \in {Refusal, DwRefusal} /\ NoEffect(c)

\* The part of C33 about effects alone.
C33_ForeignPressHasNoEffect ==
  \A c \in InlineCalls \cup DwCalls : Foreign(c) => NoEffect(c)

\* C34: while the entry of a user's inline search is stored, the Back button
\* of one of its results, pressed by that user, and the page buttons after
\* it look up the key the search was stored under and do not report an
\* expired session.
C34_BackFindsInlineSearch ==
  dw.on =>
    LET c == dw.last
    IN /\ c.op \in {"back_to_search_callback", "search_page_callback"}
       /\ c.from_user = c.shown.user
       /\ dw.via = "inline"
       /\ dw.origin \in DOMAIN dw.search_cache
       => /\ c.answer # "Search session expired!"
          /\ c.file_key = dw.origin

\* C35: every video listed in a stored search has a download_cache entry
\* for the user of the search, also after sweeps of cleanup_cache.
C35_ListedVideosAreCached ==
  dw.on =>
    \A key \in DOMAIN dw.search_cache :
      LET e == dw.search_cache[key]
      IN \A k \in 1..Len(e.results) :
           VideoKey(e.results[k], e.user_id) \in dw.download_cache

\* C35, its consequence: the user who selects a result listed by a stored
\* search is not told that the session expired.
C35_SelectNeverExpired ==
  dw.on =>
    LET c == dw.last
    IN /\ c.op = "select_video_callback"
       /\ c.from_user = c.shown.user
       /\ dw.origin \in DOMAIN dw.search_cache
       => c.answer # "Session expired!"

\* C36: the file whose path download_from_api returned to an invocation of
\* download_handler is still on disk when that invocation sends it.
C36_FileThereWhenSent ==
  \A c \in InlineCalls : c.op = "download_handler" /\ c.returned => c.present

\* C38: download_from_api makes at most three requests to the download API,
\* and a path it returns names a file of non-zero size that download_cache
\* maps the request's key to.
C38_DownloadReturnsGoodFile ==
  \A c \in InlineCalls :
    c.op = "download_handler" =>
      /\ c.requests <= MaxAttempts
      /\ c.returned => c.size > 0 /\ c.mapped

\* The part of C38 about the number of requests and the cache entry.
C38_AtMostThreeRequests ==
  \A c \in InlineCalls :
    c.op = "download_handler" =>
      /\ c.requests <= MaxAttempts /\ c.attempt <= MaxAttempts
      /\ c.returned => c.mapped

\* C37: a user's conversation_history never holds more than MAX_HISTORY
\* entries.
C37_HistoryBounded ==
  chatbot.on => Len(chatbot.conversation_history) <= MAX_HISTORY

\* The module whose keyboard is on the message.
Board == IF inline.on THEN inline ELSE dw

\* The keyboard of page p of the results on the message.
PageOf(p) ==
  IF inline.on
  THEN create_search_buttons(Board.shown.results, Board.shown.user, p)
  ELSE create_search_results_keyboard(Board.shown.results, Board.shown.user, p)

IsResult(b) == b.text = "result"

\* The callback data of the button that selects video id.
SelectData(id) ==
  IF inline.on THEN U(<<"sel">>, U(id, Digits(Board.shown.user)))
  ELSE U(<<"select">>, U(<<"video">>, U(id, Digits(Board.shown.user))))

\* The page a navigation button leads to.
Target(b) ==
  IF inline.on THEN ParseInt(Split(b.data)[2]).val
  ELSE ParseInt(Split(b.data)[3]).val

\* ceil(n / 8)
Pages(n) == CHOOSE t \in 0..n : per_page * t >= n /\ per_page * (t - 1) < n

RECURSIVE AllPages(_, _)
AllPages(p, total) ==
  IF p >= total THEN <<>>
  ELSE [k \in 1..Len(SelectSeq(PageOf(p), IsResult)) |->
          SelectSeq(PageOf(p), IsResult)[k].data]
       \o AllPages(p + 1, total)

\* C39: the pages 0..ceil(n/8)-1 of a result list show at most 8 results
\* each and together every result once, in order; the previous button is
\* there exactly when page > 0, the next button exactly when
\* page < total_pages - 1, and both lead to a page in 0..total_pages-1.
C39_PagesPartitionResults ==
  (inline.on \/ dw.on) /\ Board.shown.kind = "results" =>
    LET results == Board.shown.results
        page == Board.shown.page
        total == Pages(Len(results))
        kb == Board.markup
        shown == SelectSeq(kb, IsResult)
        first == page * per_page
    IN /\ page \in 0..(total - 1)
       /\ Len(shown) <= per_page
       /\ Len(shown) = Min(per_page, Len(results) - first)
       /\ \A k \in 1..Len(shown) : shown[k].data = SelectData(results[first + k])
       /\ AllPages(0, total) = [k \in 1..Len(results) |-> SelectData(results[k])]
       /\ (\E j \in 1..Len(kb) : kb[j].text = "prev") <=> page > 0
       /\ (\E j \in 1..Len(kb) : kb[j].text = "next") <=> page < total - 1
       /\ \A j \in 1..Len(kb) :
            kb[j].text \in {"prev", "next"} => Target(kb[j]) \in 0..(total - 1)
       /\ \A j \in 1..Len(kb) :
            /\ kb[j].text = "prev" => Target(kb[j]) = page - 1
            /\ kb[j].text = "next" => Target(kb[j]) = page + 1

\* The last, partly filled page of twenty results, reached with the next
\* button.
C39_Witness ==
  /\ (inline.on \/ dw.on) /\ Board.shown.kind = "results"
  /\ Len(Board.shown.results) = MaxResults
  /\ Board.shown.page = 2
  /\ Board.last.op \in {"page_handler", "search_page_callback"}
====
